---- MODULE Spec2Model ----
(***************************************************************************)
(* A model of the Arret debugger backend (src/backend) and of the main     *)
(* loops of its frontends (src/sdl, src/qt).                               *)
(*                                                                         *)
(* The emulator core is an external shared library; it is modelled from    *)
(* the debug ABI it implements (src/include/retrodebug.h): a table of      *)
(* subscriptions, and events delivered to the frontend's handler.          *)
(***************************************************************************)
EXTENDS Integers, Sequences, FiniteSets, TLC

\* ------------------------------------------------------------------------
\* Bounds of the model
\* ------------------------------------------------------------------------

\* breakpoint ids are allocated while g_next_id <= MaxId
MaxId == 3
\* at most MaxBps records are held in the breakpoint table
MaxBps == 2
\* at most MaxDeferred ids wait on the deferred-delete list
MaxDeferred == 1
\* a breakpoint file holds at most MaxFileLines records
MaxFileLines == 2

\* ------------------------------------------------------------------------
\* Program constants
\* ------------------------------------------------------------------------

AR_BP_EXECUTE == 1
AR_BP_READ == 2
AR_BP_WRITE == 4
RD_MEMORY_READ == 1
RD_MEMORY_WRITE == 2

HasX(flags) == (flags % 2) = 1
HasR(flags) == ((flags \div 2) % 2) = 1
HasW(flags) == ((flags \div 4) % 2) = 1

\* ------------------------------------------------------------------------
\* The emulated system, as the core describes it (rd_System)
\* ------------------------------------------------------------------------

\* sys->v1.cpus[]; cpus[1] is the primary CPU (debug_cpu_ptr)
Cpus == <<"main", "sub">>
CpuSet == {Cpus[i] : i \in 1..Len(Cpus)}
NoCpu == "nocpu"
NoMem == "nomem"

\* cpu->v1.memory_region: the secondary CPU publishes no memory region
memory_region(cpu) == IF cpu = "main" THEN "main_mem" ELSE NoMem

\* the addresses breakpoints are set on and the CPUs execute at
Addrs == {0, 1}

\* where the CPUs stand after reset
ResetAddr == 1

VARIABLES
    \* the core's subscription table: subscription id -> subscription
    subs,
    \* whether the core supports memory watchpoint subscriptions
    coreMemWatch,
    \* backend.cpp: g_has_debug (debug_init found the core's debug interface)
    g_has_debug,
    \* breakpoint.cpp
    g_bps, g_next_id, g_sub_to_bp, g_sub_failed, g_deferred_deletes,
    \* the last breakpoint operation and what it returned
    bp_last,
    \* history: every id ar_bp_add has given to a record; whether it gave
    \* one that was not greater than all of those before
    bp_allocated, bp_reused,
    \* which frontend runs: "headless" and "sdl" (src/sdl), "qt" (src/qt)
    frontend,
    \* backend.cpp: g_running; how many inputs (connections to the command
    \* server, menu actions) arrived so far
    g_running, ncmds,
    \* the main thread: its call stack, innermost call last
    ui,
    \* MainWindow.h: m_paused, m_stepping, m_bpPaused, m_frameAdvancing
    qt,
    \* backend.cpp, core thread: g_core_thread.joinable(), g_core_state,
    \* g_core_quit, g_block_resume, and where the thread running retro_run is
    joinable, g_core_state, g_core_quit, g_block_resume, corePos,
    \* the emulated CPUs: program counters, instructions executed in this
    \* frame, subscriptions the event of the next instruction went to
    pc, nInstr, delivered,
    \* backend.cpp, debug state
    g_step_active, g_step_sub_id, g_step_complete, g_bp_hit_id,
    g_skip_addr, g_skip_temp_subs,
    \* trace.cpp: the keys of g_sub_to_cpu, g_total_lines, g_active,
    \* g_cpus (CPU id -> enabled), g_cpu_settings (CPU id -> setting)
    g_trace_subs, g_total_lines, g_active, g_cpus, g_cpu_settings,
    \* history: breakpoint halts at the current PC since the PC last changed;
    \* whether a halt happened with no set_skip call since; whether a
    \* breakpoint hit was recorded since the run verb last started a frame;
    \* step and breakpoint events the skip map suppressed since the last
    \* ar_debug_set_skip call
    halts_here, skip_due, hit_seen, suppressed,
    \* backend.cpp, audio: the ring, its cursors, the downsample counter,
    \* g_mute
    audio_ring, audio_ring_write, audio_ring_read, audio_downsample_count,
    g_mute,
    \* the producer inside core_audio_sample and the consumer inside
    \* ar_audio_read: position and locals
    producer, consumer,
    \* accesses to audio_ring a thread has issued and memory has yet to
    \* perform, oldest first
    ring_stores, ring_loads,
    \* history: slots whose content the consumer has not loaded; whether a
    \* store landed on such a slot; calls of core_audio_sample so far;
    \* whether a load read a slot that held no unread frame
    unread, overwrote, nsamples, misread,
    \* trace.cpp: the line ring (slot -> line), g_ring_head, g_ring_read
    g_ring, g_ring_head, g_ring_read,
    \* history: the last ar_trace_read_new call (its argument, the cursors
    \* before it, the lines it returned, the newest line returned before it,
    \* the read cursor after it)
    trace_read,
    \* history: the last call of the trace session API; the most recent
    \* ar_trace_cpu_enable argument per CPU id
    trace_last, cpu_wanted,
    \* the bytes of the emulated address space, as rd_Memory peek reads them
    memory,
    \* search.cpp: s_candidates is the sequence of the bitfield's bytes and
    \* s_prev the sequence of the slots' values, both <<>> for nullptr
    s_mem, s_data_size, s_alignment, s_base_addr, s_region_size, s_num_slots,
    s_candidates, s_prev, s_count,
    \* history: the last call of the search API with its arguments, the
    \* candidate slots and s_prev before it and the values it read, the
    \* number of filters since the last reset
    search_last,
    \* symbols.cpp: g_syms maps <<region_id, addr>> to [label, comment];
    \* a string is the sequence of its characters' codes
    g_syms,
    \* history: the last call of the symbol API, what it returned, whether
    \* it was given a label that does not match the pattern, and the store
    \* before it
    sym_last,
    \* the memory description of the core: the ids ar_find_memory_by_id
    \* finds among the CPUs' regions and the system's regions, and each
    \* region's memory map (get_memory_map), <<>> for a region without one
    mem_listed, mem_maps,
    \* history: the last ar_sym_resolve call, its result and the number of
    \* source links it followed
    resolve_last,
    \* history: the last debug verb the command server answered, its answer
    \* and whether the program's state changed
    cmd_last,
    \* history: the last call of arch::disassemble and what it returned
    dis_last,
    \* r3000a_stack_trace: where the call stands, its locals and its result
    unw,
    \* psx_gpu_capture.cpp: g_active, g_events, g_prevVram, g_vramMem,
    \* g_frameCounter, g_deferred, g_deferredIdx, the core's VRAM, and
    \* where the core thread stands in the capture's callbacks
    gpu

bpVars == <<subs, coreMemWatch, g_has_debug, g_bps, g_next_id, g_sub_to_bp, g_sub_failed,
            g_deferred_deletes, bp_last, bp_allocated, bp_reused>>

runVars == <<frontend, g_running, ncmds, ui, qt, joinable, g_core_state,
             g_core_quit, g_block_resume, corePos, pc, nInstr, delivered,
             g_step_active, g_step_sub_id, g_step_complete, g_bp_hit_id,
             g_skip_addr, g_skip_temp_subs, g_trace_subs, g_total_lines,
             g_active, g_cpus, g_cpu_settings,
             halts_here, skip_due, hit_seen, suppressed>>

audioVars == <<audio_ring, audio_ring_write, audio_ring_read,
               audio_downsample_count, g_mute, producer, consumer,
               ring_stores, ring_loads, unread, overwrote, nsamples,
               misread>>

traceVars == <<g_ring, g_ring_head, g_ring_read, trace_read, trace_last,
               cpu_wanted>>

\* the engines that run beside the emulation loop
searchVars == <<memory, s_mem, s_data_size, s_alignment, s_base_addr,
                s_region_size, s_num_slots, s_candidates, s_prev, s_count,
                search_last>>

symVars == <<g_syms, sym_last>>

toolVars == <<mem_listed, mem_maps, resolve_last>>

cmdVars == <<cmd_last>>

archVars == <<dis_last, unw>>

gpuVars == <<gpu>>

libVars == <<traceVars, searchVars, symVars, toolVars, cmdVars, archVars, gpuVars>>

vars == <<bpVars, runVars, audioVars, libVars>>

\* the ring has AUDIO_RING_SIZE slots, two per frame (48000 * 2 in the
\* source); one frame in DOWNSAMPLE_RATIO is kept (8 in the source)
AUDIO_RING_SIZE == 6
DOWNSAMPLE_RATIO == 2
\* core_audio_sample is called at most MaxSamples times; ar_audio_read is
\* asked for at most MaxFrames frames; at most MaxLate loads are outstanding
MaxSamples == 8
MaxFrames == 2
MaxLate == 4

\* the trace ring holds TRACE_RING_SIZE lines (1 << 16 in the source); at
\* most MaxLines lines are written between two resets; ar_trace_read_new is
\* asked for at most MaxRead lines
TRACE_RING_SIZE == 3
MaxLines == 7
MaxRead == 4
\* at most MaxFilters filters are applied to a search session
MaxFilters == 2

NoRead ==
    [max |-> 0, head |-> 0, read |-> 0, out |-> <<>>, before |-> 0,
     after |-> 0]

ProducerIdle == [at |-> "idle", w |-> 0, next |-> 0, left |-> 0, right |-> 0]
ConsumerIdle == [at |-> "idle", i |-> 0, max |-> 0, r |-> 0]

\* the audio state after ar_init
AudioInit ==
    /\ audio_ring = [x \in 0..(AUDIO_RING_SIZE - 1) |-> 0]
    /\ audio_ring_write = 0
    /\ audio_ring_read = 0
    /\ audio_downsample_count = 0
    /\ g_mute = FALSE
    /\ producer = ProducerIdle
    /\ consumer = ConsumerIdle
    /\ ring_stores = <<>>
    /\ ring_loads = <<>>
    /\ unread = {}
    /\ overwrote = FALSE
    /\ nsamples = 0
    /\ misread = FALSE

\* ------------------------------------------------------------------------
\* The core's side of the debug ABI: subscribe / unsubscribe
\* ------------------------------------------------------------------------

EmptyMap == [x \in {} |-> 0]

Restrict(f, D) == [x \in D |-> f[x]]

\* a uint64_t is the sequence of its 8 bytes, least significant first
Word(b0, b1) == <<b0, b1, 0, 0, 0, 0, 0, 0>>

\* a < b for uint64_t
Less(a, b) ==
    \E k \in 1..8 : a[k] < b[k] /\ \A j \in (k + 1)..8 : a[j] = b[j]

AR_SEARCH_VS_PREV == <<255, 255, 255, 255, 255, 255, 255, 255>>

\* the memory regions of the system (rd_Memory: id, base_address, size)
Regions == [tiny |-> [base |-> 0, size |-> 1], ram |-> [base |-> 1, size |-> 9]]

\* the contents the address space takes while the program runs, from
\* address 0 on
MemImages ==
    << <<0, 0, 0, 1, 1, 0, 255, 255, 0, 1>>,
       <<1, 1, 0, 1, 0, 0, 255, 0, 255, 1>>,
       <<0, 0, 1, 0, 1, 1, 0, 255, 0, 1>> >>

\* search.cpp, ar_search_free: the state it leaves
SearchFreed ==
    /\ s_candidates = <<>>
    /\ s_prev = <<>>
    /\ s_mem = "null"
    /\ s_data_size = 0
    /\ s_alignment = 0
    /\ s_base_addr = 0
    /\ s_region_size = 0
    /\ s_num_slots = 0
    /\ s_count = 0

\* the ids of the memory objects of the core; CpuRegion is the memory
\* region of the CPUs
RegionIds == {"cpu", "bank", "rom"}

CpuRegion == "cpu"

NoResolve == [called |-> FALSE, region_id |-> "", addr |-> 0,
              found |-> FALSE, out_region |-> "", out_addr |-> 0,
              hops |-> 0]

\* a uint32_t as its high and low 16 bits
U32(hi, lo) == <<hi, lo>>

UINT32_MAX == U32(65535, 65535)

\* psx_gpu_capture.cpp before the first capture: no events, no shadow
\* buffer, nothing deferred
NoCapture ==
    [g_active |-> FALSE, g_events |-> <<>>, g_prevVram |-> <<>>,
     g_vramMem |-> "null", g_frameCounter |-> 0, g_deferred |-> FALSE,
     g_deferredIdx |-> 0, vram |-> 0, at |-> "idle", cmd |-> <<>>]

NoUnwind ==
    [at |-> "idle", img |-> "", max_depth |-> 0, depth |-> 0,
     pc |-> U32(0, 0), sp |-> U32(0, 0), ra |-> U32(0, 0),
     scan_pc |-> U32(0, 0), limit |-> U32(0, 0), addr |-> U32(0, 0),
     frame_size |-> U32(0, 0), ra_offset |-> UINT32_MAX,
     func_start |-> UINT32_MAX, found_addiu_sp |-> FALSE,
     frames |-> <<>>, status |-> "OK", back_n |-> 0, fwd_n |-> 0]

NoDis == [called |-> FALSE, cpu_type |-> "", data |-> <<>>, base_addr |-> 0,
          out |-> <<>>]

NoCmd == [verb |-> "none", sub |-> "", ok |-> TRUE, error |-> "",
          changed |-> FALSE]

NoSearch == [kind |-> "none", n |-> 0, op |-> "", p |-> FALSE,
             num |-> Word(0, 0), before |-> {}, prev |-> <<>>, cur |-> <<>>]

MinOf(S) == CHOOSE x \in S : \A y \in S : x <= y

\* rd_Subscription with type RD_EVENT_EXECUTION
ExecSub(cpu, broad, addr, mode) ==
    [type |-> "exec", target |-> cpu, broad |-> broad, addr |-> addr,
     mode |-> mode, op |-> 0]

\* rd_Subscription with type RD_EVENT_MEMORY
MemSub(mem, addr, op) ==
    [type |-> "mem", target |-> mem, broad |-> FALSE, addr |-> addr,
     mode |-> "", op |-> op]

\* "Returns negative value if not supported or if an error occurred":
\* the core accepts execution subscriptions (broad and single-address
\* ranges are universally accepted) and accepts memory subscriptions
\* when it supports memory watchpoints.
CoreAccepts(sub) == sub.type = "exec" \/ coreMemWatch

\* ids are unique among the subscriptions alive: the smallest free id
FreshSubId(S) ==
    MinOf({i \in 0..Cardinality(DOMAIN S) : i \notin DOMAIN S})

\* dif->v1.subscribe(&sub): the id, or -1
subscribe_id(S, sub) == IF CoreAccepts(sub) THEN FreshSubId(S) ELSE -1

\* the table after dif->v1.subscribe(&sub)
subscribe_tab(S, sub) ==
    IF CoreAccepts(sub) THEN S @@ (FreshSubId(S) :> sub) ELSE S

\* the table after dif->v1.unsubscribe(id) for every id of ids
unsubscribe_all(S, ids) == Restrict(S, DOMAIN S \ ids)

\* ------------------------------------------------------------------------
\* breakpoint.cpp
\* ------------------------------------------------------------------------

\* the program's state as one value: operations map it to the state after
\* (ret: what the last call returned)
State ==
    [bps |-> g_bps, next_id |-> g_next_id, subs |-> subs, map |-> g_sub_to_bp,
     failed |-> g_sub_failed, deferred |-> g_deferred_deletes, ret |-> 0,
     has_debug |-> g_has_debug,
     allocated |-> bp_allocated, reused |-> bp_reused,
     g_running |-> g_running, ncmds |-> ncmds, ui |-> ui,
     qt |-> qt, joinable |-> joinable, g_core_state |-> g_core_state,
     g_core_quit |-> g_core_quit, g_block_resume |-> g_block_resume,
     corePos |-> corePos, pc |-> pc, nInstr |-> nInstr,
     delivered |-> delivered, g_step_active |-> g_step_active,
     g_step_sub_id |-> g_step_sub_id, g_step_complete |-> g_step_complete,
     g_bp_hit_id |-> g_bp_hit_id, g_skip_addr |-> g_skip_addr,
     g_skip_temp_subs |-> g_skip_temp_subs, g_trace_subs |-> g_trace_subs,
     g_total_lines |-> g_total_lines, g_active |-> g_active,
     g_cpus |-> g_cpus, g_cpu_settings |-> g_cpu_settings,
     halts_here |-> halts_here,
     skip_due |-> skip_due, hit_seen |-> hit_seen,
     suppressed |-> suppressed]

\* install the state an operation produced
Install(s) ==
    /\ g_bps' = s.bps
    /\ g_next_id' = s.next_id
    /\ subs' = s.subs
    /\ g_sub_to_bp' = s.map
    /\ g_sub_failed' = s.failed
    /\ g_deferred_deletes' = s.deferred
    /\ bp_allocated' = s.allocated
    /\ bp_reused' = s.reused
    /\ g_running' = s.g_running
    /\ ncmds' = s.ncmds
    /\ ui' = s.ui
    /\ qt' = s.qt
    /\ joinable' = s.joinable
    /\ g_core_state' = s.g_core_state
    /\ g_core_quit' = s.g_core_quit
    /\ g_block_resume' = s.g_block_resume
    /\ corePos' = s.corePos
    /\ pc' = s.pc
    /\ nInstr' = s.nInstr
    /\ delivered' = s.delivered
    /\ g_step_active' = s.g_step_active
    /\ g_step_sub_id' = s.g_step_sub_id
    /\ g_step_complete' = s.g_step_complete
    /\ g_bp_hit_id' = s.g_bp_hit_id
    /\ g_skip_addr' = s.g_skip_addr
    /\ g_skip_temp_subs' = s.g_skip_temp_subs
    /\ g_trace_subs' = s.g_trace_subs
    /\ g_total_lines' = s.g_total_lines
    /\ g_active' = s.g_active
    /\ g_cpus' = s.g_cpus
    /\ g_cpu_settings' = s.g_cpu_settings
    /\ halts_here' = s.halts_here
    /\ skip_due' = s.skip_due
    /\ hit_seen' = s.hit_seen
    /\ suppressed' = s.suppressed
    /\ UNCHANGED <<coreMemWatch, g_has_debug, frontend, audioVars>>

Commit(s) == Install(s) /\ UNCHANGED libVars

find_cpu(id) ==
    IF id = "" THEN Cpus[1]
    ELSE IF id \in CpuSet THEN id ELSE NoCpu

\* the memory operation mask of a record's flags
MemOp(flags) ==
    (IF HasR(flags) THEN RD_MEMORY_READ ELSE 0)
    + (IF HasW(flags) THEN RD_MEMORY_WRITE ELSE 0)

\* one subscribe call of sync_subscriptions and its bookkeeping
SyncSubscribe(e, id, sub) ==
    IF subscribe_id(e.subs, sub) >= 0
    THEN [e EXCEPT !.map = @ @@ (subscribe_id(e.subs, sub) :> id),
                   !.subs = subscribe_tab(e.subs, sub)]
    ELSE [e EXCEPT !.failed = @ \cup {id}]

\* the body of sync_subscriptions' loop for one record
SyncRecord(e, id) ==
    LET bp == e.bps[id]
        cpu == find_cpu(bp.cpu_id)
        e1 == IF HasX(bp.flags)
              THEN SyncSubscribe(e, id, ExecSub(cpu, FALSE, bp.address, "RD_STEP"))
              ELSE e
    IN  IF ~bp.enabled THEN e
        ELSE IF cpu = NoCpu THEN e
        ELSE IF HasR(bp.flags) \/ HasW(bp.flags)
             THEN IF memory_region(cpu) = NoMem
                  THEN [e1 EXCEPT !.failed = @ \cup {id}]
                  ELSE SyncSubscribe(e1, id,
                           MemSub(memory_region(cpu), bp.address, MemOp(bp.flags)))
             ELSE e1

RECURSIVE SyncLoop(_, _)
SyncLoop(e, ids) ==
    IF ids = {} THEN e
    ELSE SyncLoop(SyncRecord(e, MinOf(ids)), ids \ {MinOf(ids)})

sync_subscriptions(e) ==
    IF ~e.has_debug THEN e
    ELSE SyncLoop([e EXCEPT !.subs = unsubscribe_all(e.subs, DOMAIN e.map),
                            !.map = EmptyMap,
                            !.failed = {}],
                  DOMAIN e.bps)

\* a request: the arguments of ar_bp_add / ar_bp_replace
NewRecord(id, req) ==
    [id |-> id, address |-> req.address, enabled |-> req.enabled,
     temporary |-> req.temporary, flags |-> req.flags,
     condition |-> req.condition, cpu_id |-> req.cpu_id]

\* ar_bp_add without the rollback of lines 127-131
ar_bp_add_keeps_failed(e, req) ==
    LET id == e.next_id
        e1 == sync_subscriptions(
                  [e EXCEPT !.next_id = id + 1,
                            !.allocated = @ \cup {id},
                            !.reused = @ \/ \E j \in e.allocated : id <= j,
                            !.bps = @ @@ (id :> NewRecord(id, req))])
    IN  IF id \in e1.failed
        THEN [e1 EXCEPT !.ret = -1]
        ELSE [e1 EXCEPT !.ret = id]

ar_bp_add(e, req) ==
    LET id == e.next_id
        e1 == sync_subscriptions(
                  [e EXCEPT !.next_id = id + 1,
                            !.allocated = @ \cup {id},
                            !.reused = @ \/ \E j \in e.allocated : id <= j,
                            !.bps = @ @@ (id :> NewRecord(id, req))])
    IN  IF id \in e1.failed
        THEN [sync_subscriptions(
                  [e1 EXCEPT !.bps = Restrict(@, DOMAIN @ \ {id})])
              EXCEPT !.ret = -1]
        ELSE [e1 EXCEPT !.ret = id]

ar_bp_delete(e, id) ==
    IF id \notin DOMAIN e.bps THEN [e EXCEPT !.ret = 0]
    ELSE [sync_subscriptions([e EXCEPT !.bps = Restrict(@, DOMAIN @ \ {id})])
          EXCEPT !.ret = 1]

\* ar_bp_enable writing the flag of every record
ar_bp_enable_all(e, id, enabled) ==
    IF id \notin DOMAIN e.bps THEN [e EXCEPT !.ret = 0]
    ELSE [sync_subscriptions(
              [e EXCEPT !.bps = [j \in DOMAIN @ |->
                                    [@[j] EXCEPT !.enabled = enabled]]])
          EXCEPT !.ret = 1]

ar_bp_enable(e, id, enabled) ==
    IF id \notin DOMAIN e.bps THEN [e EXCEPT !.ret = 0]
    ELSE LET e1 == sync_subscriptions([e EXCEPT !.bps[id].enabled = enabled])
         IN  IF id \in e1.failed
             THEN [sync_subscriptions(
                       [e1 EXCEPT !.bps[id].enabled = e.bps[id].enabled])
                   EXCEPT !.ret = 0]
             ELSE [e1 EXCEPT !.ret = 1]

ar_bp_set_temporary(e, id, temporary) ==
    IF id \notin DOMAIN e.bps THEN [e EXCEPT !.ret = 0]
    ELSE [e EXCEPT !.bps[id].temporary = temporary, !.ret = 1]

ar_bp_replace(e, id, req) ==
    IF id \notin DOMAIN e.bps THEN [e EXCEPT !.ret = 0]
    ELSE LET e1 == sync_subscriptions([e EXCEPT !.bps[id] = NewRecord(id, req)])
         IN  IF id \in e1.failed
             THEN [sync_subscriptions([e1 EXCEPT !.bps[id] = e.bps[id]])
                   EXCEPT !.ret = 0]
             ELSE [e1 EXCEPT !.ret = 1]

\* ar_bp_clear that also starts the ids over
ar_bp_clear_restarts_ids(e) ==
    [sync_subscriptions([e EXCEPT !.bps = EmptyMap, !.next_id = 1])
     EXCEPT !.ret = 1]

ar_bp_clear(e) ==
    [sync_subscriptions([e EXCEPT !.bps = EmptyMap]) EXCEPT !.ret = 1]

\* ar_bp_load: clear, then one ar_bp_add per parsed line of the file
RECURSIVE LoadLines(_, _)
LoadLines(e, lines) ==
    IF lines = <<>> THEN e
    ELSE LoadLines(ar_bp_add(e, Head(lines)), Tail(lines))

ar_bp_load(e, lines) ==
    [LoadLines(ar_bp_clear(e), lines) EXCEPT !.ret = 1]

ar_bp_defer_delete(e, id) ==
    [e EXCEPT !.deferred = Append(@, id)]

RECURSIVE FlushLoop(_, _)
FlushLoop(e, pending) ==
    IF pending = <<>> THEN e
    ELSE FlushLoop(ar_bp_delete(e, Head(pending)), Tail(pending))

ar_bp_flush_deferred(e) ==
    IF e.deferred = <<>> THEN e
    ELSE FlushLoop([e EXCEPT !.deferred = <<>>], e.deferred)

ar_bp_sub_is_breakpoint(e, sub_id) == sub_id \in DOMAIN e.map

ar_bp_sub_to_id(e, sub_id) ==
    IF sub_id \in DOMAIN e.map THEN e.map[sub_id] ELSE -1

\* ------------------------------------------------------------------------
\* The breakpoint engine driven by its callers
\* ------------------------------------------------------------------------

Req(address, flags, enabled, temporary, condition, cpu_id) ==
    [address |-> address, flags |-> flags, enabled |-> enabled,
     temporary |-> temporary, condition |-> condition, cpu_id |-> cpu_id]

\* the requests the callers make: execution breakpoints and watchpoints on
\* the primary CPU, on the secondary CPU (which has no memory region) and
\* on a CPU id the system does not have; enabled and disabled; temporary
\* and not; with and without a condition
BpRequests ==
    { Req(0, AR_BP_EXECUTE, TRUE, FALSE, "", ""),
      Req(0, AR_BP_WRITE, TRUE, TRUE, "", ""),
      Req(1, AR_BP_EXECUTE + AR_BP_WRITE, TRUE, FALSE, "a", ""),
      Req(0, AR_BP_EXECUTE + AR_BP_READ, TRUE, FALSE, "", "sub"),
      Req(0, AR_BP_EXECUTE, TRUE, FALSE, "", "cpu9"),
      Req(1, AR_BP_EXECUTE + AR_BP_WRITE, FALSE, TRUE, "", "") }

\* the lines a breakpoint file holds
FileRequests ==
    { Req(0, AR_BP_EXECUTE, TRUE, FALSE, "", ""),
      Req(1, AR_BP_EXECUTE + AR_BP_WRITE, TRUE, FALSE, "a", ""),
      Req(0, AR_BP_EXECUTE, TRUE, FALSE, "", "cpu9"),
      Req(1, 0, TRUE, FALSE, "", "") }

\* a subscription the record of req requires is refused: the core returns
\* a negative id, or the CPU has no memory region to watch
SubscriptionFails(req) ==
    /\ req.enabled
    /\ find_cpu(req.cpu_id) # NoCpu
    /\ \/ /\ HasX(req.flags)
          /\ ~CoreAccepts(ExecSub(find_cpu(req.cpu_id), FALSE, req.address, "RD_STEP"))
       \/ /\ HasR(req.flags) \/ HasW(req.flags)
          /\ \/ memory_region(find_cpu(req.cpu_id)) = NoMem
             \/ ~CoreAccepts(MemSub(memory_region(find_cpu(req.cpu_id)),
                                    req.address, MemOp(req.flags)))

\* install the state a breakpoint operation produced; bp_last remembers
\* the operation, what it returned and whether a subscription of its record
\* was refused
BpCommit(e, op, refused) ==
    /\ Commit(e)
    /\ bp_last' = [op |-> op, ret |-> e.ret, refused |-> refused]

BpAdd(req) ==
    /\ g_next_id <= MaxId
    /\ Cardinality(DOMAIN g_bps) < MaxBps
    /\ BpCommit(ar_bp_add(State, req), "add", SubscriptionFails(req))

BpDelete(id) == BpCommit(ar_bp_delete(State, id), "delete", FALSE)

\* bp_last also remembers the id the call was given
BpEnable(id, enabled) ==
    /\ Commit(ar_bp_enable(State, id, enabled))
    /\ bp_last' = [op |-> "enable",
                   ret |-> ar_bp_enable(State, id, enabled).ret,
                   refused |-> FALSE, id |-> id]

BpSetTemporary(id, temporary) ==
    BpCommit(ar_bp_set_temporary(State, id, temporary), "set_temporary", FALSE)

BpReplace(id, req) ==
    BpCommit(ar_bp_replace(State, id, req), "replace",
             id \in DOMAIN g_bps /\ SubscriptionFails(req))

BpClear == BpCommit(ar_bp_clear(State), "clear", FALSE)

BpLoad(lines) ==
    /\ g_next_id + Len(lines) <= MaxId + 1
    /\ BpCommit(ar_bp_load(State, lines), "load", FALSE)

\* the characters of the strings records hold
Text(str) ==
    CASE str = "" -> <<>>
      [] str = "a" -> <<"a">>
      [] str = "sub" -> <<"s", "u", "b">>
      [] str = "cpu9" -> <<"c", "p", "u", "9">>

\* the string with the characters txt; "?" when no record string has them
StrOf(txt) ==
    IF \E str \in {"", "a", "sub", "cpu9"} : Text(str) = txt
    THEN CHOOSE str \in {"", "a", "sub", "cpu9"} : Text(str) = txt
    ELSE "?"

HexDigits ==
    <<"0", "1", "2", "3", "4", "5", "6", "7", "8", "9", "A", "B", "C", "D",
      "E", "F">>

\* ar_bp_save, lines 238-253: the line of the record bp, without its
\* newline
FormatLine(bp) ==
    (IF bp.cpu_id # "" THEN Text(bp.cpu_id) \o <<".">> ELSE <<>>)
    \o <<HexDigits[((bp.address \div 4096) % 16) + 1],
          HexDigits[((bp.address \div 256) % 16) + 1],
          HexDigits[((bp.address \div 16) % 16) + 1],
          HexDigits[(bp.address % 16) + 1], " ">>
    \o (IF HasX(bp.flags) THEN <<"X">> ELSE <<>>)
    \o (IF HasR(bp.flags) THEN <<"R">> ELSE <<>>)
    \o (IF HasW(bp.flags) THEN <<"W">> ELSE <<>>)
    \o (IF bp.temporary THEN <<"t">> ELSE <<>>)
    \o (IF ~bp.enabled THEN <<"d">> ELSE <<>>)
    \o (IF bp.condition # "" THEN <<" ">> \o Text(bp.condition) ELSE <<>>)

\* ar_bp_save: one line per record, in the order of the ids
RECURSIVE SaveFrom(_, _)
SaveFrom(bps, id) ==
    IF id > MaxId THEN <<>>
    ELSE (IF id \in DOMAIN bps THEN <<FormatLine(bps[id])>> ELSE <<>>)
         \o SaveFrom(bps, id + 1)

ar_bp_save(e) == SaveFrom(e.bps, 1)

\* sscanf: the first position from i on that holds no blank
RECURSIVE SkipWs(_, _)
SkipWs(line, i) ==
    IF i <= Len(line) /\ line[i] = " " THEN SkipWs(line, i + 1) ELSE i

\* sscanf %s: the position after the run of non-blanks that starts at i
RECURSIVE TokEnd(_, _)
TokEnd(line, i) ==
    IF i <= Len(line) /\ line[i] # " " THEN TokEnd(line, i + 1) ELSE i

\* strtoull(txt, NULL, 16) from position i on, acc digits read so far
RECURSIVE ParseHex(_, _, _)
ParseHex(txt, i, acc) ==
    IF i <= Len(txt) /\ \E d \in 1..16 : HexDigits[d] = txt[i]
    THEN ParseHex(txt, i + 1,
                  acc * 16 + (CHOOSE d \in 1..16 : HexDigits[d] = txt[i]) - 1)
    ELSE acc

\* ar_bp_load, line 307: the condition without its trailing blanks
RECURSIVE TrimRight(_)
TrimRight(txt) ==
    IF txt # <<>> /\ txt[Len(txt)] = " "
    THEN TrimRight(SubSeq(txt, 1, Len(txt) - 1)) ELSE txt

\* ar_bp_load, lines 268-310: the request parsed from a line, as a
\* sequence of one request, or <<>> for a line that is skipped
ParseLine(line) ==
    LET a0 == SkipWs(line, 1)
        a1 == TokEnd(line, a0)
        f0 == SkipWs(line, a1)
        f1 == TokEnd(line, f0)
        c0 == SkipWs(line, f1)
        addr_s == SubSeq(line, a0, a1 - 1)
        flags_s == SubSeq(line, f0, f1 - 1)
        cond == TrimRight(SubSeq(line, c0, Len(line)))
        dots == {i \in 1..Len(addr_s) : addr_s[i] = "."}
        dot == IF dots = {} THEN 0 ELSE MinOf(dots)
        cpu_id == IF dot > 1 THEN SubSeq(addr_s, 1, dot - 1) ELSE <<>>
        has(c) == \E i \in 1..Len(flags_s) : flags_s[i] \in c
        flags == (IF has({"X", "x"}) THEN AR_BP_EXECUTE ELSE 0)
                 + (IF has({"R", "r"}) THEN AR_BP_READ ELSE 0)
                 + (IF has({"W", "w"}) THEN AR_BP_WRITE ELSE 0)
    IN  IF line = <<>> \/ line[1] = "#" \/ addr_s = <<>> \/ flags_s = <<>>
        THEN <<>>
        ELSE <<Req(ParseHex(addr_s, dot + 1, 0), flags, ~has({"D", "d"}),
                   has({"T", "t"}), StrOf(cond), StrOf(cpu_id))>>

\* the requests of the lines of a file, in order
RECURSIVE ParseFile(_)
ParseFile(text) ==
    IF text = <<>> THEN <<>>
    ELSE ParseLine(Head(text)) \o ParseFile(Tail(text))

\* `bp save` and then `bp load` of the file written; bp_last remembers the
\* table saved
BpSaveLoad ==
    /\ g_bps # EmptyMap
    /\ g_next_id + Cardinality(DOMAIN g_bps) <= MaxId + 1
    /\ Commit(ar_bp_load(State, ParseFile(ar_bp_save(State))))
    /\ bp_last' = [op |-> "reload", ret |-> 1, refused |-> FALSE,
                   before |-> g_bps]

\* a temporary breakpoint fires: the event handler queues its id
BpHitTemporary(sub_id) ==
    /\ Len(g_deferred_deletes) < MaxDeferred
    /\ ar_bp_sub_is_breakpoint(State, sub_id)
    /\ ar_bp_sub_to_id(State, sub_id) \in DOMAIN g_bps
    /\ g_bps[ar_bp_sub_to_id(State, sub_id)].temporary
    /\ BpCommit(ar_bp_defer_delete(State, ar_bp_sub_to_id(State, sub_id)),
                "defer", FALSE)

BpFlushDeferred ==
    /\ g_deferred_deletes # <<>>
    /\ BpCommit(ar_bp_flush_deferred(State), "flush", FALSE)

BpFiles ==
    UNION {[1..n -> FileRequests] : n \in 0..MaxFileLines}

\* the state after ar_init: content loaded, no core thread, nothing
\* subscribed; the CPUs stand at the reset address
InitProgram ==
    /\ subs = EmptyMap
    /\ g_bps = EmptyMap
    /\ g_next_id = 1
    /\ g_sub_to_bp = EmptyMap
    /\ g_sub_failed = {}
    /\ g_deferred_deletes = <<>>
    /\ bp_last = [op |-> "none", ret |-> 0, refused |-> FALSE]
    /\ bp_allocated = {}
    /\ bp_reused = FALSE
    /\ g_running = TRUE
    /\ ncmds = 0
    /\ qt = [m_paused |-> FALSE, m_stepping |-> FALSE, m_bpPaused |-> FALSE,
             m_frameAdvancing |-> FALSE]
    /\ g_core_state = "IDLE"
    /\ g_core_quit = FALSE
    /\ g_block_resume = FALSE
    /\ pc = [c \in CpuSet |-> ResetAddr]
    /\ nInstr = 0
    /\ delivered = {}
    /\ g_step_active = FALSE
    /\ g_step_sub_id = -1
    /\ g_step_complete = FALSE
    /\ g_bp_hit_id = -1
    /\ g_skip_addr = EmptyMap
    /\ g_skip_temp_subs = EmptyMap
    /\ g_trace_subs = {}
    /\ g_total_lines = 0
    /\ g_active = FALSE
    /\ g_cpus = EmptyMap
    /\ g_cpu_settings = EmptyMap
    /\ halts_here = 0
    /\ skip_due = FALSE
    /\ hit_seen = FALSE
    /\ suppressed = 0
    /\ AudioInit
    /\ g_ring = [x \in 0..(TRACE_RING_SIZE - 1) |-> 0]
    /\ g_ring_head = 0
    /\ g_ring_read = 0
    /\ trace_read = NoRead
    /\ trace_last = "none"
    /\ cpu_wanted = EmptyMap
    /\ memory = MemImages[1]
    /\ SearchFreed
    /\ search_last = NoSearch
    /\ g_syms = EmptyMap
    /\ sym_last = [op |-> "none", ret |-> 0, invalid |-> FALSE,
                   before |-> EmptyMap]
    /\ mem_listed = {CpuRegion}
    /\ mem_maps = [r \in RegionIds |-> <<>>]
    /\ resolve_last = NoResolve
    /\ cmd_last = NoCmd
    /\ dis_last = NoDis
    /\ unw = NoUnwind
    /\ gpu = NoCapture

\* the breakpoint engine alone: no frontend loop runs
InitBp ==
    /\ InitProgram
    /\ g_has_debug = TRUE
    /\ coreMemWatch \in BOOLEAN
    /\ frontend = "none"
    /\ ui = <<>>
    /\ joinable = FALSE
    /\ corePos = "none"

NextBp ==
    \/ \E req \in BpRequests : BpAdd(req)
    \/ \E id \in 1..MaxId : BpDelete(id)
    \/ \E id \in 1..MaxId, en \in BOOLEAN : BpEnable(id, en)
    \/ \E id \in 1..MaxId, t \in BOOLEAN : BpSetTemporary(id, t)
    \/ \E id \in 1..MaxId, req \in BpRequests : BpReplace(id, req)
    \/ BpClear
    \/ \E lines \in BpFiles : BpLoad(lines)
    \/ BpSaveLoad
    \/ \E s \in DOMAIN subs : BpHitTemporary(s)
    \/ BpFlushDeferred

SpecBp == InitBp /\ [][NextBp]_vars

\* ------------------------------------------------------------------------
\* backend.cpp: core thread, stepping, skip map, event dispatcher
\* ------------------------------------------------------------------------

\* a frame of the emulated program executes MaxInstr instructions
MaxInstr == 2
\* suppressed events are counted up to MaxSuppressed
MaxSuppressed == 2
\* at most MaxCmds inputs arrive: connections to the command server (each
\* carries one command line) and menu actions of the user
MaxCmds == 3
\* the trace line counter is followed up to MaxTraceLines
MaxTraceLines == 1

Range(f) == {f[x] : x \in DOMAIN f}

\* the CPU whose instructions the modelled core reports
ExecCpu == Cpus[1]

\* an execution subscription covers the instruction of cpu at addr
Matches(sub, cpu, addr) ==
    sub.type = "exec" /\ sub.target = cpu /\ (sub.broad \/ sub.addr = addr)

\* subscriptions the event of the instruction at PC has yet to go to
Pending(s) ==
    {i \in DOMAIN s.subs \ s.delivered :
        Matches(s.subs[i], ExecCpu, s.pc[ExecCpu])}

ar_core_thread_start(s) ==
    IF s.joinable THEN s
    ELSE [s EXCEPT !.g_core_quit = FALSE, !.g_core_state = "IDLE",
                   !.joinable = TRUE, !.corePos = "wait"]

\* succeeds exactly when s.joinable /\ s.g_core_state = "IDLE"
ar_run_frame_async(s) ==
    IF s.joinable /\ s.g_core_state = "IDLE"
    THEN [s EXCEPT !.g_core_state = "RUNNING"]
    ELSE s

ar_core_ack_done(s) ==
    IF s.g_core_state = "DONE" THEN [s EXCEPT !.g_core_state = "IDLE"] ELSE s

ar_core_resume_blocked(s) ==
    [s EXCEPT !.g_core_state = IF @ = "BLOCKED" THEN "RUNNING" ELSE @,
              !.g_block_resume = TRUE]

ar_bp_ack_hit(s) == [s EXCEPT !.g_bp_hit_id = -1]

RECURSIVE SkipLoop(_, _)
SkipLoop(s, i) ==
    IF i > Len(Cpus) THEN s
    ELSE LET cpu == Cpus[i]
             sub == ExecSub(cpu, TRUE, 0, "RD_STEP")
             sid == subscribe_id(s.subs, sub)
         IN  SkipLoop([s EXCEPT !.g_skip_addr = (cpu :> s.pc[cpu]) @@ @,
                                !.g_skip_temp_subs =
                                    IF sid >= 0 THEN (cpu :> sid) @@ @ ELSE @,
                                !.subs = subscribe_tab(@, sub)],
                      i + 1)

ar_debug_set_skip(s) ==
    SkipLoop([s EXCEPT !.subs = unsubscribe_all(@, Range(s.g_skip_temp_subs)),
                       !.g_skip_temp_subs = EmptyMap,
                       !.g_skip_addr = EmptyMap,
                       !.skip_due = FALSE,
                       !.suppressed = 0],
             1)

\* ar_debug_step_begin(AR_STEP_IN): ret 1 for true, 0 for false
ar_debug_step_begin(s) ==
    LET sub == ExecSub(Cpus[1], TRUE, 0, "RD_STEP")
        id == subscribe_id(s.subs, sub)
    IN  IF s.g_step_active \/ id < 0 THEN [s EXCEPT !.ret = 0]
        ELSE [ar_debug_set_skip(
                  [s EXCEPT !.subs = subscribe_tab(@, sub),
                            !.g_step_sub_id = id,
                            !.g_step_complete = FALSE,
                            !.g_step_active = TRUE])
              EXCEPT !.ret = 1]

\* a step end that forgets the step without unsubscribing it
ar_debug_step_end_leaking(s) ==
    [s EXCEPT !.g_step_active = FALSE,
              !.g_step_complete = FALSE,
              !.g_step_sub_id = -1]

ar_debug_step_end(s) ==
    [s EXCEPT !.subs = IF s.g_step_active
                       THEN unsubscribe_all(@, {s.g_step_sub_id}) ELSE @,
              !.g_step_active = FALSE,
              !.g_step_complete = FALSE,
              !.g_step_sub_id = -1]

\* populate_cpus with the saved settings ignored
populate_cpus_defaults(s) ==
    [s EXCEPT !.g_cpus = [c \in CpuSet |-> c = Cpus[1]]]

\* populate_cpus: the saved setting, or the main CPU only (the first CPU
\* of the modelled system is its main CPU)
populate_cpus(s) ==
    [s EXCEPT !.g_cpus = [c \in CpuSet |->
                             IF c \in DOMAIN s.g_cpu_settings
                             THEN s.g_cpu_settings[c] ELSE c = Cpus[1]]]

\* trace.cpp, sync_subscriptions, lines 160-179, from CPU number i on
RECURSIVE TraceSubscribe(_, _)
TraceSubscribe(s, i) ==
    IF i > Len(Cpus) THEN s
    ELSE LET sub == ExecSub(Cpus[i], TRUE, 0, "RD_STEP")
             sid == subscribe_id(s.subs, sub)
         IN  IF Cpus[i] \notin DOMAIN s.g_cpus \/ ~s.g_cpus[Cpus[i]]
             THEN TraceSubscribe(s, i + 1)
             ELSE TraceSubscribe(
                      [s EXCEPT !.subs = subscribe_tab(@, sub),
                                !.g_trace_subs =
                                    IF sid >= 0 THEN @ \cup {sid} ELSE @],
                      i + 1)

\* trace.cpp, sync_subscriptions
trace_sync_subscriptions(s) ==
    LET s0 == [s EXCEPT !.subs = unsubscribe_all(@, s.g_trace_subs),
                        !.g_trace_subs = {}]
    IN  IF ~s.has_debug THEN s
        ELSE IF s.g_active THEN TraceSubscribe(s0, 1) ELSE s0

ar_trace_stop(s) ==
    IF s.g_active THEN trace_sync_subscriptions([s EXCEPT !.g_active = FALSE])
    ELSE s

\* ar_trace_start(NULL): ret 1 for true, 0 for false
ar_trace_start(s) ==
    IF ~s.has_debug THEN [ar_trace_stop(s) EXCEPT !.ret = 0]
    ELSE trace_sync_subscriptions(
             [populate_cpus(ar_trace_stop(s)) EXCEPT !.g_total_lines = 0,
                                                     !.g_active = TRUE,
                                                     !.ret = 1])

\* ar_trace_cpu_enable(cpu_id, enable): ret 1 for true, 0 for false
ar_trace_cpu_enable(s, cpu_id, enable) ==
    LET resolved == IF cpu_id = "" THEN Cpus[1] ELSE cpu_id
        s1 == [s EXCEPT !.g_cpu_settings = (resolved :> enable) @@ @]
    IN  IF cpu_id = "" /\ ~s.has_debug THEN [s EXCEPT !.ret = 0]
        ELSE IF s.g_active /\ resolved \in DOMAIN s.g_cpus
        THEN [trace_sync_subscriptions([s1 EXCEPT !.g_cpus[resolved] = enable])
              EXCEPT !.ret = 1]
        ELSE [s1 EXCEPT !.ret = IF s.has_debug /\ resolved \in CpuSet
                                THEN 1 ELSE 0]

\* ar_trace_on_event for an execution event: one more line, returns false
ar_trace_on_event(s) ==
    [s EXCEPT !.g_total_lines = IF @ < MaxTraceLines THEN @ + 1 ELSE @]

\* a dispatcher that decides by the event's address instead of by the
\* subscription the event was delivered on: any event at the address of an
\* armed breakpoint halts, housekeeping subscriptions included
debug_handle_event_by_address(s, sub_id, can_halt) ==
    LET cpu == s.subs[sub_id].target
        hit == {b \in DOMAIN s.map \cap DOMAIN s.subs :
                   Matches(s.subs[b], cpu, s.pc[cpu])}
        is_step == s.g_step_active /\ sub_id = s.g_step_sub_id
        is_bp == hit # {}
        bp_id == IF is_bp THEN s.map[MinOf(hit)] ELSE -1
        s2 == [s EXCEPT
                 !.g_step_complete = IF is_step THEN TRUE ELSE @,
                 !.g_bp_hit_id = IF is_bp THEN bp_id ELSE @,
                 !.deferred = IF is_bp /\ bp_id \in DOMAIN s.bps
                                 /\ s.bps[bp_id].temporary
                              THEN Append(@, bp_id) ELSE @,
                 !.halts_here = IF is_bp /\ @ < 2 THEN @ + 1 ELSE @,
                 !.hit_seen = @ \/ is_bp,
                 !.skip_due = TRUE]
    IN  IF ~is_step /\ ~is_bp THEN [s EXCEPT !.ret = 0]
        ELSE IF can_halt THEN [s2 EXCEPT !.ret = 1]
        ELSE [s2 EXCEPT !.g_core_state = "BLOCKED", !.ret = 2]

\* a dispatcher that looks at the skip map only when the event arrives on a
\* skip-map temporary subscription: events on other subscriptions leave
\* entries whose CPU has moved on
debug_handle_event_lazy_skip(s, sub_id, can_halt) ==
    LET cpu == s.subs[sub_id].target
        moved == IF sub_id \in Range(s.g_skip_temp_subs)
                 THEN {c \in DOMAIN s.g_skip_addr : s.pc[c] # s.g_skip_addr[c]}
                 ELSE {}
        s1 == [s EXCEPT
                 !.g_skip_addr = Restrict(@, DOMAIN @ \ moved),
                 !.subs = unsubscribe_all(@,
                     {s.g_skip_temp_subs[c] :
                         c \in moved \cap DOMAIN s.g_skip_temp_subs}),
                 !.g_skip_temp_subs = Restrict(@, DOMAIN @ \ moved),
                 !.ret = 0]
        at_skip == cpu \in DOMAIN s1.g_skip_addr
                   /\ s.pc[cpu] = s1.g_skip_addr[cpu]
        is_step == s.g_step_active /\ sub_id = s.g_step_sub_id
        is_bp == ar_bp_sub_is_breakpoint(s, sub_id)
        bp_id == ar_bp_sub_to_id(s, sub_id)
        s2 == [s1 EXCEPT
                 !.g_step_complete = IF is_step THEN TRUE ELSE @,
                 !.g_bp_hit_id = IF is_bp THEN bp_id ELSE @,
                 !.deferred = IF is_bp /\ bp_id \in DOMAIN s.bps
                                 /\ s.bps[bp_id].temporary
                              THEN Append(@, bp_id) ELSE @,
                 !.halts_here = IF is_bp /\ @ < 2 THEN @ + 1 ELSE @,
                 !.hit_seen = @ \/ is_bp,
                 !.skip_due = TRUE]
    IN  IF sub_id \in Range(s1.g_skip_temp_subs) THEN s1
        ELSE IF sub_id \in s.g_trace_subs
             THEN IF at_skip THEN s1 ELSE ar_trace_on_event(s1)
        ELSE IF ~is_step /\ ~is_bp THEN s1
        ELSE IF at_skip
             THEN [s1 EXCEPT !.suppressed = IF @ < MaxSuppressed THEN @ + 1
                                            ELSE @]
        ELSE IF can_halt THEN [s2 EXCEPT !.ret = 1]
        ELSE [s2 EXCEPT !.g_core_state = "BLOCKED", !.ret = 2]

\* a dispatcher that tests the skip address after it has applied the side
\* effects of the hit: a suppressed event still returns false
debug_handle_event_late_skip(s, sub_id, can_halt) ==
    LET cpu == s.subs[sub_id].target
        moved == {c \in DOMAIN s.g_skip_addr : s.pc[c] # s.g_skip_addr[c]}
        s1 == [s EXCEPT
                 !.g_skip_addr = Restrict(@, DOMAIN @ \ moved),
                 !.subs = unsubscribe_all(@,
                     {s.g_skip_temp_subs[c] :
                         c \in moved \cap DOMAIN s.g_skip_temp_subs}),
                 !.g_skip_temp_subs = Restrict(@, DOMAIN @ \ moved),
                 !.ret = 0]
        at_skip == cpu \in DOMAIN s1.g_skip_addr
                   /\ s.pc[cpu] = s1.g_skip_addr[cpu]
        is_step == s.g_step_active /\ sub_id = s.g_step_sub_id
        is_bp == ar_bp_sub_is_breakpoint(s, sub_id)
        bp_id == ar_bp_sub_to_id(s, sub_id)
        s2 == [s1 EXCEPT
                 !.g_step_complete = IF is_step THEN TRUE ELSE @,
                 !.g_bp_hit_id = IF is_bp THEN bp_id ELSE @,
                 !.deferred = IF is_bp /\ bp_id \in DOMAIN s.bps
                                 /\ s.bps[bp_id].temporary
                              THEN Append(@, bp_id) ELSE @,
                 !.halts_here = IF is_bp /\ @ < 2 THEN @ + 1 ELSE @,
                 !.hit_seen = @ \/ is_bp,
                 !.skip_due = TRUE]
    IN  IF sub_id \in Range(s1.g_skip_temp_subs) THEN s1
        ELSE IF sub_id \in s.g_trace_subs
             THEN IF at_skip THEN s1 ELSE ar_trace_on_event(s1)
        ELSE IF ~is_step /\ ~is_bp THEN s1
        ELSE IF at_skip
             THEN [s2 EXCEPT !.suppressed = IF @ < MaxSuppressed THEN @ + 1
                                            ELSE @]
        ELSE IF can_halt THEN [s2 EXCEPT !.ret = 1]
        ELSE [s2 EXCEPT !.g_core_state = "BLOCKED", !.ret = 2]

\* debug_handle_event for an execution event of the CPU at its PC.
\* ret: 0 the handler returns false, 1 it returns true, 2 it has set
\* CORE_BLOCKED and waits for g_block_resume (and will return false)
debug_handle_event(s, sub_id, can_halt) ==
    LET cpu == s.subs[sub_id].target
        moved == {c \in DOMAIN s.g_skip_addr : s.pc[c] # s.g_skip_addr[c]}
        s1 == [s EXCEPT
                 !.g_skip_addr = Restrict(@, DOMAIN @ \ moved),
                 !.subs = unsubscribe_all(@,
                     {s.g_skip_temp_subs[c] :
                         c \in moved \cap DOMAIN s.g_skip_temp_subs}),
                 !.g_skip_temp_subs = Restrict(@, DOMAIN @ \ moved),
                 !.ret = 0]
        at_skip == cpu \in DOMAIN s1.g_skip_addr
                   /\ s.pc[cpu] = s1.g_skip_addr[cpu]
        is_step == s.g_step_active /\ sub_id = s.g_step_sub_id
        is_bp == ar_bp_sub_is_breakpoint(s, sub_id)
        bp_id == ar_bp_sub_to_id(s, sub_id)
        s2 == [s1 EXCEPT
                 !.g_step_complete = IF is_step THEN TRUE ELSE @,
                 !.g_bp_hit_id = IF is_bp THEN bp_id ELSE @,
                 !.deferred = IF is_bp /\ bp_id \in DOMAIN s.bps
                                 /\ s.bps[bp_id].temporary
                              THEN Append(@, bp_id) ELSE @,
                 !.halts_here = IF is_bp /\ @ < 2 THEN @ + 1 ELSE @,
                 !.hit_seen = @ \/ is_bp,
                 !.skip_due = TRUE]
    IN  IF sub_id \in Range(s1.g_skip_temp_subs) THEN s1
        ELSE IF sub_id \in s.g_trace_subs
             THEN IF at_skip THEN s1 ELSE ar_trace_on_event(s1)
        ELSE IF ~is_step /\ ~is_bp THEN s1
        ELSE IF at_skip
             THEN [s1 EXCEPT !.suppressed = IF @ < MaxSuppressed THEN @ + 1
                                            ELSE @]
        ELSE IF can_halt THEN [s2 EXCEPT !.ret = 1]
        ELSE [s2 EXCEPT !.g_core_state = "BLOCKED", !.ret = 2]

\* ------------------------------------------------------------------------
\* The core: retro_run on the core thread, or on the caller's thread when
\* no core thread was started
\* ------------------------------------------------------------------------

\* install a state of the runtime
Run(s) == Commit(s) /\ UNCHANGED bp_last

\* retro_run returns to core_thread_func, or to ar_run_frame
RetroRunReturns(s) ==
    IF s.joinable
    THEN [s EXCEPT !.g_core_state = IF @ = "RUNNING" THEN "DONE" ELSE @,
                   !.corePos = "wait"]
    ELSE [s EXCEPT !.corePos = "none"]

\* core_thread_func: woken by CORE_RUNNING or by g_core_quit
CoreWake ==
    /\ corePos = "wait"
    /\ g_core_state = "RUNNING" \/ g_core_quit
    /\ Run(IF g_core_quit THEN [State EXCEPT !.corePos = "exit"]
           ELSE [State EXCEPT !.corePos = "start", !.nInstr = 0])

\* the core reports the instruction it is about to execute to one
\* subscription. After a clean halt the next retro_run reports the
\* instruction again, either to every subscription (refire) or to those the
\* event had not reached.
CoreDispatch(sub_id, can_halt, refire) ==
    /\ corePos \in {"start", "run"}
    /\ sub_id \in Pending(State)
    /\ LET r == debug_handle_event(
                    [State EXCEPT !.delivered = @ \cup {sub_id},
                                  !.corePos = "run"],
                    sub_id, can_halt)
       IN  Run(CASE r.ret = 0 -> r
                 [] r.ret = 1 ->
                      RetroRunReturns(
                          [r EXCEPT !.delivered = IF refire THEN {} ELSE @])
                 [] r.ret = 2 -> [r EXCEPT !.corePos = "hwait"])

\* debug_handle_event, lines 477-480: the blocked handler is released
CoreUnblock ==
    /\ corePos = "hwait"
    /\ g_block_resume
    /\ Run([State EXCEPT !.g_block_resume = FALSE, !.corePos = "run"])

\* every subscription was told: the instruction executes, the PC moves
CoreExec(a) ==
    /\ corePos \in {"start", "run"}
    /\ Pending(State) = {}
    /\ nInstr < MaxInstr
    /\ Run([State EXCEPT !.pc[ExecCpu] = a,
                         !.nInstr = @ + 1,
                         !.delivered = {},
                         !.corePos = "run",
                         !.halts_here = IF a = pc[ExecCpu] THEN @ ELSE 0])

\* the frame is complete
CoreFrameEnd ==
    /\ corePos \in {"start", "run"}
    /\ Pending(State) = {}
    /\ nInstr = MaxInstr
    /\ Run(RetroRunReturns(State))

\* ------------------------------------------------------------------------
\* cmd.cpp: the command server
\* ------------------------------------------------------------------------

Frame(at, n) == [at |-> at, n |-> n, wb |-> FALSE]

Top(s) == s.ui[Len(s.ui)]

At(l) == ui # <<>> /\ ui[Len(ui)].at = l

Goto(s, l) == [s EXCEPT !.ui[Len(s.ui)].at = l]

Push(s, f) == [s EXCEPT !.ui = Append(@, f)]

Pop(s) == [s EXCEPT !.ui = SubSeq(@, 1, Len(@) - 1)]

\* the command lines clients send
Cmds ==
    { [verb |-> "run", arg |-> 1], [verb |-> "run", arg |-> 2],
      [verb |-> "step", arg |-> 0], [verb |-> "save", arg |-> 0],
      [verb |-> "bp", arg |-> 0], [verb |-> "bp", arg |-> 1],
      [verb |-> "trace", arg |-> 0], [verb |-> "quit", arg |-> 0] }

\* `bp add 0 X` (arg 0) and `bp add 0 XT` (arg 1)
CmdBpAdd(s, arg) ==
    IF s.next_id > MaxId THEN s
    ELSE ar_bp_add(s, Req(0, AR_BP_EXECUTE, TRUE, arg = 1, "", ""))

\* ar_check_socket_commands: poll() finds a connection waiting; its
\* command line c is read and handed to ar_process_command. quit, bp and
\* trace are served in one step, the other verbs continue in a frame of
\* their own
SockAccept(c) ==
    /\ At("sock")
    /\ ncmds < MaxCmds
    /\ LET s == [State EXCEPT !.ncmds = @ + 1]
       IN  Run(CASE c.verb = "quit" -> [s EXCEPT !.g_running = FALSE]
                 [] c.verb = "bp" -> CmdBpAdd(s, c.arg)
                 [] c.verb = "trace" -> ar_trace_start(s)
                 [] OTHER -> Push(s, Frame(c.verb, c.arg)))

\* poll() finds no connection waiting: ar_check_socket_commands returns
SockReturn ==
    /\ At("sock")
    /\ Run(Pop(State))

\* run verb, lines 440-453: start the thread, resume a blocked core
RunStart ==
    /\ At("run")
    /\ LET s == ar_core_thread_start(State)
       IN  Run(IF s.g_core_state = "BLOCKED"
               THEN Goto(ar_core_resume_blocked(ar_bp_ack_hit(ar_debug_set_skip(s))),
                         "run_resumed")
               ELSE Goto(s, "run_loop"))

\* run verb, lines 448-452: wait for the interrupted frame to finish
RunResumed ==
    /\ At("run_resumed")
    /\ g_core_state \in {"IDLE", "DONE"}
    /\ Run(Goto(ar_core_ack_done(State), "run_loop"))

\* run verb, lines 461-470: the loop head and ar_run_frame_async
RunLoop ==
    /\ At("run_loop")
    /\ LET n == Top(State).n
       IN  \/ /\ n = 0
              /\ Run(Goto(State, "run_end"))
           \/ /\ n > 0
              /\ joinable /\ g_core_state = "IDLE"
              /\ Run(Goto([ar_run_frame_async(State) EXCEPT !.hit_seen = FALSE],
                          "run_poll"))

\* run verb, lines 472-499: the frame is done or the core is blocked
RunPoll ==
    /\ At("run_poll")
    /\ g_core_state \in {"DONE", "BLOCKED"}
    /\ LET blocked == g_core_state = "BLOCKED"
           s == ar_core_ack_done(State)
           s1 == [s EXCEPT !.ui[Len(s.ui)].wb = blocked,
                           !.ui[Len(s.ui)].n = @ - 1]
       IN  Run(IF blocked \/ s.g_bp_hit_id >= 0 THEN Goto(s1, "run_end")
               ELSE IF frontend = "qt" THEN Goto(s1, "run_events")
               ELSE Goto(s1, "run_loop"))

\* QApplication::processEvents returns to the run verb
RunEventsDone ==
    /\ At("run_events")
    /\ Run(Goto(State, "run_loop"))

\* run verb, lines 501-510: flush, acknowledge, answer
RunEnd ==
    /\ At("run_end")
    /\ Run(Pop(ar_bp_ack_hit(ar_bp_flush_deferred(State))))

\* step verb, lines 524-541
StepStart ==
    /\ At("step")
    /\ LET s == ar_core_thread_start(State)
           b == ar_debug_step_begin(s)
       IN  Run(IF s.g_core_state = "BLOCKED"
               THEN Goto(ar_core_resume_blocked(ar_bp_ack_hit(ar_debug_set_skip(s))),
                         "step_resumed")
               ELSE IF b.ret = 0 THEN Pop(b)
               ELSE Goto(b, "step_loop"))

\* step verb, lines 532-541
StepResumed ==
    /\ At("step_resumed")
    /\ g_core_state \in {"IDLE", "DONE"}
    /\ LET b == ar_debug_step_begin(ar_core_ack_done(State))
       IN  Run(IF b.ret = 0 THEN Pop(b) ELSE Goto(b, "step_loop"))

\* step verb, lines 545-550
StepLoop ==
    /\ At("step_loop")
    /\ joinable /\ g_core_state = "IDLE"
    /\ Run(Goto(ar_run_frame_async(State), "step_poll"))

\* step verb, lines 552-578
StepPoll ==
    /\ At("step_poll")
    /\ g_core_state \in {"DONE", "BLOCKED"}
    /\ LET s == ar_core_ack_done(State)
       IN  Run(IF s.g_step_complete \/ s.g_bp_hit_id >= 0
                  \/ s.g_core_state = "BLOCKED"
               THEN Pop(ar_bp_ack_hit(ar_bp_flush_deferred(ar_debug_step_end(s))))
               ELSE Goto(s, "step_loop"))

\* save and load verbs: refused when the core is blocked
SaveCheck ==
    /\ At("save")
    /\ Run(IF g_core_state = "BLOCKED" THEN Pop(State)
           ELSE Goto(State, "serialize"))

\* ar_save_state / ar_load_state: retro_serialize / retro_unserialize end
SaveDone ==
    /\ At("serialize")
    /\ Run(Pop(State))

\* ------------------------------------------------------------------------
\* cmd.cpp: the debug verbs on a core that gave no debug interface
\* (debug_init returned false: debugger_if_ptr is NULL, g_has_debug false)
\* ------------------------------------------------------------------------

\* the verbs whose handler starts with the ar_has_debug() test
GuardedVerbs ==
    {"content", "s", "so", "sout", "peek", "poke", "reg", "regions", "dump",
     "dis", "cpu"}

DebugVerbs == GuardedVerbs \cup {"bp", "search", "trace"}

Cmd(verb, sub, arg) == [verb |-> verb, sub |-> sub, arg |-> arg]

\* the debug command lines clients send: `peek ram 0`, ..., `bp add 0 X`
\* (arg 0), `bp add 0 XT` (arg 1), `bp delete 1`, `bp enable 1`,
\* `bp disable 1`, `bp list`, `bp clear`, `search reset ram`,
\* `search filter eq 1`, `search list`, `search count`, `trace on`,
\* `trace off`, `trace status`, `trace cpu sub on`
DebugCmds ==
    {Cmd(v, "", 0) : v \in GuardedVerbs}
    \cup {Cmd("bp", "add", 0), Cmd("bp", "add", 1), Cmd("bp", "delete", 1),
          Cmd("bp", "enable", 1), Cmd("bp", "disable", 1),
          Cmd("bp", "list", 0), Cmd("bp", "clear", 0),
          Cmd("search", "reset", 0), Cmd("search", "filter", 0),
          Cmd("search", "list", 0), Cmd("search", "count", 0),
          Cmd("trace", "on", 0), Cmd("trace", "off", 0),
          Cmd("trace", "status", 0), Cmd("trace", "cpu", 0)}

Answer(s, ok, error) == [s |-> s, ok |-> ok, error |-> error]

\* ar_process_command for a debug verb when ar_has_debug() is false: the
\* state after and the answer written
Serve(s, c) ==
    CASE c.verb \in GuardedVerbs -> Answer(s, FALSE, "no debug support")
      [] c.verb = "bp" /\ c.sub = "add" ->
          LET r == CmdBpAdd(s, c.arg)
          IN  IF s.next_id > MaxId THEN Answer(s, TRUE, "")
              ELSE Answer(r, r.ret >= 0,
                          IF r.ret >= 0 THEN "" ELSE "subscription failed")
      [] c.verb = "bp" /\ c.sub = "delete" ->
          LET r == ar_bp_delete(s, c.arg)
          IN  Answer(r, r.ret = 1, IF r.ret = 1 THEN "" ELSE "not found")
      [] c.verb = "bp" /\ c.sub \in {"enable", "disable"} ->
          LET r == ar_bp_enable(s, c.arg, c.sub = "enable")
          IN  Answer(r, r.ret = 1,
                     IF r.ret = 1 THEN ""
                     ELSE "not found or subscription failed")
      [] c.verb = "bp" /\ c.sub = "list" -> Answer(s, TRUE, "")
      [] c.verb = "bp" /\ c.sub = "clear" -> Answer(ar_bp_clear(s), TRUE, "")
      \* ar_search_reset: ar_search_free (nothing is allocated), then
      \* ar_find_memory_by_id returns NULL
      [] c.verb = "search" /\ c.sub = "reset" ->
          Answer(s, FALSE, "search reset failed (bad region or size)")
      \* ar_search_active() is false
      [] c.verb = "search" -> Answer(s, FALSE, "no active search")
      [] c.verb = "trace" /\ c.sub = "on" ->
          LET r == ar_trace_start(s)
          IN  Answer(r, r.ret = 1,
                     IF r.ret = 1 THEN "" ELSE "failed to start trace")
      [] c.verb = "trace" /\ c.sub = "off" -> Answer(ar_trace_stop(s), TRUE, "")
      [] c.verb = "trace" /\ c.sub = "status" -> Answer(s, TRUE, "")
      [] c.verb = "trace" /\ c.sub = "cpu" ->
          LET r == ar_trace_cpu_enable(s, "sub", TRUE)
          IN  Answer(r, r.ret = 1, IF r.ret = 1 THEN "" ELSE "unknown cpu")

\* ar_check_socket_commands hands a debug verb to ar_process_command
DebugCommand(c) ==
    /\ At("sock")
    /\ ncmds < MaxCmds
    /\ ~g_has_debug
    /\ LET r == Serve(State, c)
       IN  /\ Install([r.s EXCEPT !.ncmds = @ + 1])
           /\ cmd_last' = [verb |-> c.verb, sub |-> c.sub, ok |-> r.ok,
                           error |-> r.error,
                           changed |-> [r.s EXCEPT !.ret = 0] # State]
    /\ UNCHANGED <<bp_last, traceVars, searchVars, symVars, toolVars,
                   archVars, gpuVars>>

\* ar_check_socket_commands hands `run n` to ar_process_command
RunCommand(n) ==
    /\ At("sock")
    /\ ncmds < MaxCmds
    /\ ~g_has_debug
    /\ Run(Push([State EXCEPT !.ncmds = @ + 1], Frame("run", n)))

\* ------------------------------------------------------------------------
\* The frontends' main loops and shutdown
\* ------------------------------------------------------------------------

\* sdl/main.cpp, run_headless: serve commands while ar_running()
HlLoop ==
    /\ At("hl")
    /\ Run(IF g_running THEN Push(State, Frame("sock", 0))
           ELSE Goto(State, "stop"))

\* sdl/main.cpp, run_headed: sdl_handle_events (the window may be closed),
\* then ar_check_socket_commands
SdlEvents(quit) ==
    /\ At("sdl")
    /\ Run(IF g_running
           THEN Push(Goto([State EXCEPT !.g_running = ~quit], "sdl_run"),
                     Frame("sock", 0))
           ELSE Goto(State, "stop"))

\* ar_run_frame: signal the core thread, or call retro_run on this thread
SdlRunFrame ==
    /\ At("sdl_run")
    /\ Run(Goto(IF joinable THEN ar_run_frame_async(State)
                ELSE [State EXCEPT !.corePos = "start", !.nInstr = 0],
                "sdl_wait"))

\* ar_run_frame returns; run_headed calls ar_bp_flush_deferred
SdlFrameDone ==
    /\ At("sdl_wait")
    /\ IF joinable THEN g_core_state \in {"DONE", "BLOCKED"}
       ELSE corePos = "none"
    /\ Run(Goto(ar_bp_flush_deferred(ar_core_ack_done(State)), "sdl"))

QtSkip(s) ==
    IF s.qt.m_bpPaused
    THEN [ar_debug_set_skip(s) EXCEPT !.qt.m_bpPaused = FALSE]
    ELSE s

QtEndStep(s) ==
    IF s.qt.m_stepping
    THEN [ar_debug_step_end(s) EXCEPT !.qt.m_stepping = FALSE]
    ELSE s

\* MainWindow::tick, lines 120-158
tick(s) ==
    LET state == s.g_core_state
        sB == IF state = "BLOCKED" /\ s.g_bp_hit_id >= 0
              THEN [ar_bp_ack_hit(s) EXCEPT !.qt.m_bpPaused = TRUE]
              ELSE s
        d1 == ar_core_ack_done(s)
        d2 == IF d1.qt.m_stepping /\ d1.g_step_complete THEN QtEndStep(d1)
              ELSE d1
        d3 == IF d2.g_bp_hit_id >= 0
              THEN [ar_bp_ack_hit(d2) EXCEPT !.qt.m_paused = TRUE,
                                             !.qt.m_bpPaused = TRUE]
              ELSE d2
        sD == IF state = "DONE" THEN d3 ELSE sB
    IN  IF state \in {"IDLE", "DONE"}
           /\ (sD.qt.m_stepping \/ sD.qt.m_frameAdvancing \/ ~sD.qt.m_paused)
        THEN [ar_run_frame_async(QtSkip(sD)) EXCEPT !.qt.m_frameAdvancing = FALSE]
        ELSE sD

togglePause(s) ==
    [(IF s.qt.m_paused /\ s.g_core_state = "BLOCKED"
      THEN ar_core_resume_blocked(QtSkip(QtEndStep(s)))
      ELSE s)
     EXCEPT !.qt.m_paused = ~s.qt.m_paused]

frameAdvance(s) ==
    [(IF s.g_core_state = "BLOCKED"
      THEN ar_core_resume_blocked(QtSkip(QtEndStep(s)))
      ELSE s)
     EXCEPT !.qt.m_paused = TRUE, !.qt.m_frameAdvancing = TRUE]

debugStep(s) ==
    LET p == [s EXCEPT !.qt.m_paused = TRUE]
        wasSuspended == s.g_core_state = "BLOCKED"
        b == ar_debug_step_begin(QtEndStep(p))
    IN  IF wasSuspended /\ s.qt.m_stepping
        THEN ar_core_resume_blocked(QtSkip([p EXCEPT !.g_step_complete = FALSE]))
        ELSE IF b.ret = 0 THEN b
        ELSE IF wasSuspended
             THEN ar_core_resume_blocked(QtSkip([b EXCEPT !.qt.m_stepping = TRUE]))
        ELSE [b EXCEPT !.qt.m_stepping = TRUE]

debugResume(s) ==
    LET e == QtEndStep(s)
        r == IF e.g_core_state = "BLOCKED"
             THEN ar_core_resume_blocked(QtSkip(e)) ELSE e
    IN  [QtSkip(r) EXCEPT !.qt.m_paused = FALSE]

\* the Qt event loop, or QApplication::processEvents called by the run
\* verb, dispatches events to the main window
QtDispatching ==
    /\ frontend = "qt"
    /\ (At("qt") /\ g_running) \/ At("run_events")

\* the timer fires: MainWindow::tick, which ends in ar_check_socket_commands
QtTick ==
    /\ QtDispatching
    /\ Run(Push(tick(State), Frame("sock", 0)))

QtActions == {"togglePause", "frameAdvance", "debugStep", "debugResume"}

\* the user triggers a menu action (counted with the connections)
QtAction(a) ==
    /\ QtDispatching
    /\ ncmds < MaxCmds
    /\ Run([(CASE a = "togglePause" -> togglePause(State)
               [] a = "frameAdvance" -> frameAdvance(State)
               [] a = "debugStep" -> debugStep(State)
               [] a = "debugResume" -> debugResume(State))
            EXCEPT !.ncmds = @ + 1])

\* tick closes the window once ar_running() is false; app.exec() returns
QtClose ==
    /\ At("qt")
    /\ ~g_running
    /\ Run(Goto(State, "stop"))

\* ar_shutdown: ar_core_thread_stop up to the join
Stop ==
    /\ At("stop")
    /\ Run(IF joinable
           THEN Goto([State EXCEPT !.g_core_quit = TRUE,
                                   !.g_block_resume = TRUE], "join")
           ELSE Goto(ar_debug_step_end(State), "exited"))

\* g_core_thread.join() returns; ar_shutdown goes on
Join ==
    /\ At("join")
    /\ corePos = "exit"
    /\ Run(Goto(ar_debug_step_end(
                    [State EXCEPT !.joinable = FALSE, !.corePos = "none",
                                  !.g_core_state = "IDLE"]),
                "exited"))

Frontends == {"headless", "sdl", "qt"}

\* the frontend enters its main loop; MainWindow::startEmulation has
\* started the core thread
InitRun ==
    /\ InitProgram
    /\ g_has_debug = TRUE
    /\ coreMemWatch = TRUE
    /\ frontend \in Frontends
    /\ ui = <<Frame(CASE frontend = "headless" -> "hl"
                      [] frontend = "sdl" -> "sdl"
                      [] frontend = "qt" -> "qt", 0)>>
    /\ joinable = (frontend = "qt")
    /\ corePos = IF frontend = "qt" THEN "wait" ELSE "none"

NextRun ==
    \/ CoreWake
    \/ \E sub_id \in DOMAIN subs, can_halt \in BOOLEAN, refire \in BOOLEAN :
           CoreDispatch(sub_id, can_halt, refire)
    \/ CoreUnblock
    \/ \E a \in Addrs : CoreExec(a)
    \/ CoreFrameEnd
    \/ \E c \in Cmds : SockAccept(c)
    \/ SockReturn
    \/ RunStart
    \/ RunResumed
    \/ RunLoop
    \/ RunPoll
    \/ RunEventsDone
    \/ RunEnd
    \/ StepStart
    \/ StepResumed
    \/ StepLoop
    \/ StepPoll
    \/ SaveCheck
    \/ SaveDone
    \/ HlLoop
    \/ \E quit \in BOOLEAN : SdlEvents(quit)
    \/ SdlRunFrame
    \/ SdlFrameDone
    \/ QtTick
    \/ \E a \in QtActions : QtAction(a)
    \/ QtClose
    \/ Stop
    \/ Join

SpecRun == InitRun /\ [][NextRun]_vars

\* the headless frontend on a core without debug interface
InitCmd ==
    /\ InitProgram
    /\ g_has_debug = FALSE
    /\ coreMemWatch = FALSE
    /\ frontend = "headless"
    /\ ui = <<Frame("hl", 0)>>
    /\ joinable = FALSE
    /\ corePos = "none"

NextCmd ==
    \/ CoreWake
    \/ \E a \in Addrs : CoreExec(a)
    \/ CoreFrameEnd
    \/ \E c \in DebugCmds : DebugCommand(c)
    \/ \E n \in 1..2 : RunCommand(n)
    \/ SockReturn
    \/ RunStart
    \/ RunLoop
    \/ RunPoll
    \/ RunEnd
    \/ HlLoop

SpecCmd == InitCmd /\ [][NextCmd]_vars

\* ------------------------------------------------------------------------
\* backend.cpp: the audio ring. The producer is the thread running retro_run,
\* the consumer the audio callback (sdl) or the sink timer (qt). The cursors
\* are volatile unsigned, the ring a plain array: nothing orders an access to
\* the ring with the cursor accesses around it, so a store to the ring may
\* reach memory after the producer's later steps and a load of the ring may
\* be performed after the consumer's later steps, as well as in program order.
\* ------------------------------------------------------------------------

\* the stereo frames the core hands to core_audio_sample
SampleInputs == {<<1, 2>>, <<2, 1>>}

AudioStep == UNCHANGED <<bpVars, runVars, libVars>>

\* core_audio_sample, lines 328-335: mute, downsampling, the write cursor
SampleBegin(left, right) ==
    /\ producer.at = "idle"
    /\ nsamples < MaxSamples
    /\ nsamples' = nsamples + 1
    /\ IF g_mute
       THEN UNCHANGED <<audio_downsample_count, producer>>
       ELSE IF audio_downsample_count + 1 < DOWNSAMPLE_RATIO
       THEN /\ audio_downsample_count' = audio_downsample_count + 1
            /\ UNCHANGED producer
       ELSE /\ audio_downsample_count' = 0
            /\ producer' = [at |-> "full", w |-> audio_ring_write,
                            next |-> (audio_ring_write + 2) % AUDIO_RING_SIZE,
                            left |-> left, right |-> right]
    /\ UNCHANGED <<audio_ring, audio_ring_write, audio_ring_read, g_mute,
                   consumer, ring_stores, ring_loads, unread, overwrote>>
    /\ UNCHANGED misread
    /\ AudioStep

\* line 336: the ring is full, the sample is dropped
SampleFull ==
    /\ producer.at = "full"
    /\ producer' = IF producer.next = audio_ring_read THEN ProducerIdle
                   ELSE [producer EXCEPT !.at = "store"]
    /\ UNCHANGED <<audio_ring, audio_ring_write, audio_ring_read,
                   audio_downsample_count, g_mute, consumer, ring_stores,
                   ring_loads, unread, overwrote, nsamples>>
    /\ UNCHANGED misread
    /\ AudioStep

\* lines 337-338: the two stores to the ring are issued
SampleStore ==
    /\ producer.at = "store"
    /\ ring_stores = <<>>
    /\ ring_stores' = <<[slot |-> producer.w, val |-> producer.left],
                        [slot |-> producer.w + 1, val |-> producer.right]>>
    /\ producer' = [producer EXCEPT !.at = "publish"]
    /\ UNCHANGED <<audio_ring, audio_ring_write, audio_ring_read,
                   audio_downsample_count, g_mute, consumer, ring_loads,
                   unread, overwrote, nsamples>>
    /\ UNCHANGED misread
    /\ AudioStep

\* line 339: the write cursor advances, core_audio_sample returns
SamplePublish ==
    /\ producer.at = "publish"
    /\ audio_ring_write' = producer.next
    /\ producer' = ProducerIdle
    /\ UNCHANGED <<audio_ring, audio_ring_read, audio_downsample_count,
                   g_mute, consumer, ring_stores, ring_loads, unread,
                   overwrote, nsamples>>
    /\ UNCHANGED misread
    /\ AudioStep

\* the oldest issued store reaches audio_ring
RingStore ==
    /\ ring_stores # <<>>
    /\ LET st == Head(ring_stores)
       IN  /\ audio_ring' = [audio_ring EXCEPT ![st.slot] = st.val]
           /\ overwrote' = (overwrote \/ st.slot \in unread)
           /\ unread' = unread \cup {st.slot}
    /\ ring_stores' = Tail(ring_stores)
    /\ UNCHANGED <<audio_ring_write, audio_ring_read, audio_downsample_count,
                   g_mute, producer, consumer, ring_loads, nsamples>>
    /\ UNCHANGED misread
    /\ AudioStep

\* ar_audio_read(out, max_frames) is called
ReadBegin(max_frames) ==
    /\ consumer.at = "idle"
    /\ consumer' = [at |-> "loop", i |-> 0, max |-> max_frames, r |-> 0]
    /\ UNCHANGED <<audio_ring, audio_ring_write, audio_ring_read,
                   audio_downsample_count, g_mute, producer, ring_stores,
                   ring_loads, unread, overwrote, nsamples>>
    /\ UNCHANGED misread
    /\ AudioStep

\* lines 996-1000: the loop test, the cursors, the two loads are issued;
\* the caller uses out[] on return, so every load is performed by then
ReadLoop ==
    /\ consumer.at = "loop"
    /\ IF consumer.i >= consumer.max \/ audio_ring_read = audio_ring_write
       THEN /\ ring_loads = <<>>
            /\ consumer' = ConsumerIdle
            /\ UNCHANGED ring_loads
       ELSE /\ Len(ring_loads) + 2 <= MaxLate
            /\ ring_loads' = ring_loads \o
                                 <<audio_ring_read, audio_ring_read + 1>>
            /\ consumer' = [consumer EXCEPT !.at = "advance",
                                            !.r = audio_ring_read]
    /\ UNCHANGED <<audio_ring, audio_ring_write, audio_ring_read,
                   audio_downsample_count, g_mute, producer, ring_stores,
                   unread, overwrote, nsamples>>
    /\ UNCHANGED misread
    /\ AudioStep

\* line 1001: the read cursor advances
ReadAdvance ==
    /\ consumer.at = "advance"
    /\ audio_ring_read' = (consumer.r + 2) % AUDIO_RING_SIZE
    /\ consumer' = [consumer EXCEPT !.at = "loop", !.i = @ + 1, !.r = 0]
    /\ UNCHANGED <<audio_ring, audio_ring_write, audio_downsample_count,
                   g_mute, producer, ring_stores, ring_loads, unread,
                   overwrote, nsamples>>
    /\ UNCHANGED misread
    /\ AudioStep

\* the oldest issued load reads audio_ring
RingLoad ==
    /\ ring_loads # <<>>
    /\ misread' = (misread \/ Head(ring_loads) \notin unread)
    /\ unread' = unread \ {Head(ring_loads)}
    /\ ring_loads' = Tail(ring_loads)
    /\ UNCHANGED <<audio_ring, audio_ring_write, audio_ring_read,
                   audio_downsample_count, g_mute, producer, consumer,
                   ring_stores, overwrote, nsamples>>
    /\ AudioStep

ar_set_mute(muted) ==
    /\ g_mute # muted
    /\ g_mute' = muted
    /\ UNCHANGED <<audio_ring, audio_ring_write, audio_ring_read,
                   audio_downsample_count, producer, consumer, ring_stores,
                   ring_loads, unread, overwrote, nsamples>>
    /\ UNCHANGED misread
    /\ AudioStep

InitAudio == InitBp /\ coreMemWatch

NextAudio ==
    \/ \E in \in SampleInputs : SampleBegin(in[1], in[2])
    \/ SampleFull
    \/ SampleStore
    \/ SamplePublish
    \/ RingStore
    \/ \E max_frames \in 1..MaxFrames : ReadBegin(max_frames)
    \/ ReadLoop
    \/ ReadAdvance
    \/ RingLoad
    \/ \E muted \in BOOLEAN : ar_set_mute(muted)

SpecAudio == InitAudio /\ [][NextAudio]_vars

\* ------------------------------------------------------------------------
\* trace.cpp: the line ring. ring_write and ar_trace_read_new hold
\* g_ring_mutex from their first access to their last, so each is one step.
\* A line is identified by its number since the ring was reset.
\* ------------------------------------------------------------------------

Min(a, b) == IF a < b THEN a ELSE b

\* ring_write(line), called by ar_trace_on_event during a session
ring_write(line) ==
    /\ g_active
    /\ g_ring_head < MaxLines
    /\ g_ring' = [g_ring EXCEPT ![g_ring_head % TRACE_RING_SIZE] = line]
    /\ g_ring_head' = g_ring_head + 1
    /\ UNCHANGED <<g_ring_read, trace_read, trace_last, cpu_wanted>>
    /\ UNCHANGED <<bpVars, runVars, audioVars, searchVars, symVars, toolVars,
                     cmdVars, archVars, gpuVars>>

\* ar_trace_read_new that never moves the read cursor forward over lost
\* lines
ar_trace_read_new_no_snap(max_lines) ==
    LET available == g_ring_head - g_ring_read
        to_read == Min(max_lines, available)
    IN  /\ trace_read' =
               [max |-> max_lines, head |-> g_ring_head, read |-> g_ring_read,
                out |-> [i \in 1..to_read |->
                            g_ring[(g_ring_read + i - 1) % TRACE_RING_SIZE]],
                before |-> IF trace_read.out = <<>> THEN trace_read.before
                           ELSE trace_read.out[Len(trace_read.out)],
                after |-> g_ring_read + to_read]
        /\ g_ring_read' = g_ring_read + to_read
        /\ UNCHANGED <<g_ring, g_ring_head, trace_last, cpu_wanted>>
        /\ UNCHANGED <<bpVars, runVars, audioVars, searchVars, symVars, toolVars,
                     cmdVars, archVars, gpuVars>>

\* ar_trace_read_new(out, max_lines)
ar_trace_read_new(max_lines) ==
    LET wrapped == g_ring_head - g_ring_read > TRACE_RING_SIZE
        read == IF wrapped THEN g_ring_head - TRACE_RING_SIZE ELSE g_ring_read
        available == g_ring_head - read
        to_read == Min(max_lines, available)
    IN  /\ trace_read' =
               [max |-> max_lines, head |-> g_ring_head, read |-> g_ring_read,
                out |-> [i \in 1..to_read |->
                            g_ring[(read + i - 1) % TRACE_RING_SIZE]],
                before |-> IF trace_read.out = <<>> THEN trace_read.before
                           ELSE trace_read.out[Len(trace_read.out)],
                after |-> read + to_read]
        /\ g_ring_read' = read + to_read
        /\ UNCHANGED <<g_ring, g_ring_head, trace_last, cpu_wanted>>
        /\ UNCHANGED <<bpVars, runVars, audioVars, searchVars, symVars, toolVars,
                     cmdVars, archVars, gpuVars>>

\* ar_trace_start(NULL): the ring is reset, the CPUs are populated and
\* subscribed
TraceStart ==
    /\ g_ring' = g_ring
    /\ g_ring_head' = 0
    /\ g_ring_read' = 0
    /\ trace_read' = NoRead
    /\ trace_last' = "start"
    /\ Install(ar_trace_start(State))
    /\ UNCHANGED <<cpu_wanted, bp_last, searchVars, symVars, toolVars,
                   cmdVars, archVars, gpuVars>>

TraceStop ==
    /\ trace_last' = "stop"
    /\ Install(ar_trace_stop(State))
    /\ UNCHANGED <<g_ring, g_ring_head, g_ring_read, trace_read, cpu_wanted,
                   bp_last, searchVars, symVars, toolVars,
                   cmdVars, archVars, gpuVars>>

\* `trace cpu <name> on|off`
TraceCpuEnable(cpu_id, enable) ==
    /\ trace_last' = "cpu"
    /\ cpu_wanted' = ((IF cpu_id = "" THEN Cpus[1] ELSE cpu_id) :> enable)
                         @@ cpu_wanted
    /\ Install(ar_trace_cpu_enable(State, cpu_id, enable))
    /\ UNCHANGED <<g_ring, g_ring_head, g_ring_read, trace_read, bp_last,
                   searchVars, symVars, toolVars, cmdVars, archVars, gpuVars>>

TraceCpuIds == {"", "sub", "cpu9"}

NextTrace ==
    \/ ring_write(g_ring_head + 1)
    \/ \E max_lines \in 0..MaxRead : ar_trace_read_new(max_lines)
    \/ TraceStart
    \/ TraceStop
    \/ \E cpu_id \in TraceCpuIds, enable \in BOOLEAN :
           TraceCpuEnable(cpu_id, enable)

SpecTrace == InitAudio /\ [][NextTrace]_vars

\* ------------------------------------------------------------------------
\* search.cpp: the memory search engine. Slot i of the session is element
\* i + 1 of s_prev; byte i of the bitfield is element i + 1 of s_candidates.
\* ------------------------------------------------------------------------

bit_test(bf, i) == (bf[(i \div 8) + 1] \div (2 ^ (i % 8))) % 2 = 1

bit_clear(bf, i) ==
    IF bit_test(bf, i) THEN [bf EXCEPT ![(i \div 8) + 1] = @ - 2 ^ (i % 8)]
    ELSE bf

\* read_value(addr, size) on the contents mem: little-endian
read_value(mem, addr, size) ==
    [i \in 1..8 |-> IF i <= size THEN mem[addr + i] ELSE 0]

slot_to_addr(slot) == s_base_addr + slot * s_alignment

\* the slots whose bit is set
Candidates ==
    {i \in 0..(Len(s_candidates) * 8 - 1) : bit_test(s_candidates, i)}

\* the switch of ar_search_filter
Keep(op, cur, cmp) ==
    CASE op = "eq" -> cur = cmp
      [] op = "ne" -> cur # cmp
      [] op = "lt" -> Less(cur, cmp)
      [] op = "gt" -> Less(cmp, cur)
      [] op = "le" -> ~Less(cmp, cur)
      [] op = "ge" -> ~Less(cur, cmp)

\* ar_search_reset, lines 77-86, with the trailing bits left set
fresh_bitfield_ff(num_slots) ==
    [b \in 1..((num_slots + 7) \div 8) |-> 255]

\* ar_search_reset, lines 77-86: all bits set, the trailing bits cleared
fresh_bitfield(num_slots) ==
    LET bf_bytes == (num_slots + 7) \div 8
        tail == bf_bytes * 8 - num_slots
    IN  [b \in 1..bf_bytes |->
            IF b = bf_bytes /\ tail > 0
            THEN 255 % (2 ^ (num_slots % 8)) ELSE 255]

SearchStep ==
    UNCHANGED <<bpVars, runVars, audioVars, traceVars, symVars, toolVars,
                cmdVars, archVars, gpuVars>>

\* the assignments of ar_search_free
Free ==
    /\ s_candidates' = <<>>
    /\ s_prev' = <<>>
    /\ s_mem' = "null"
    /\ s_data_size' = 0
    /\ s_alignment' = 0
    /\ s_base_addr' = 0
    /\ s_region_size' = 0
    /\ s_num_slots' = 0
    /\ s_count' = 0

ar_search_free ==
    /\ Free
    /\ search_last' = [NoSearch EXCEPT !.kind = "free"]
    /\ UNCHANGED memory
    /\ SearchStep

ar_search_reset(region_id, data_size, alignment) ==
    LET ds == IF data_size \in {1, 2, 4} THEN data_size ELSE 1
        al0 == IF alignment \in {1, 2, 4} THEN alignment ELSE 1
        al == IF al0 < ds THEN ds ELSE al0
    IN  /\ search_last' = [NoSearch EXCEPT !.kind = "reset"]
        /\ UNCHANGED memory
        /\ SearchStep
        /\ IF region_id \notin DOMAIN Regions THEN Free
           ELSE LET mem == Regions[region_id]
                    num_slots == mem.size \div al
                IN  /\ s_mem' = region_id
                    /\ s_data_size' = ds
                    /\ s_alignment' = al
                    /\ s_base_addr' = mem.base
                    /\ s_region_size' = mem.size
                    /\ s_num_slots' = num_slots
                    /\ IF num_slots = 0
                       THEN /\ s_candidates' = <<>>
                            /\ s_prev' = <<>>
                            /\ s_count' = 0
                       ELSE /\ s_candidates' = fresh_bitfield(num_slots)
                            /\ s_prev' = [i \in 1..num_slots |->
                                   read_value(memory,
                                              mem.base + (i - 1) * al, ds)]
                            /\ s_count' = num_slots

\* ar_search_filter, lines 102-130, from slot on: st holds the bitfield and
\* the count
RECURSIVE FilterFrom(_, _, _, _)
FilterFrom(st, op, value, slot) ==
    IF slot >= s_num_slots THEN st
    ELSE LET cur == read_value(memory, slot_to_addr(slot), s_data_size)
             cmp == IF value = AR_SEARCH_VS_PREV THEN s_prev[slot + 1]
                    ELSE value
         IN  FilterFrom(
                 IF bit_test(st.bf, slot) /\ ~Keep(op, cur, cmp)
                 THEN [bf |-> bit_clear(st.bf, slot), count |-> st.count - 1]
                 ELSE st,
                 op, value, slot + 1)

\* `search filter <op> <value|p>`: the caller asks for the previous
\* snapshot (p) or gives the number num
ar_search_filter(op, p, num, later) ==
    LET value == IF p THEN AR_SEARCH_VS_PREV ELSE num
        st == FilterFrom([bf |-> s_candidates, count |-> s_count], op,
                         value, 0)
    IN  /\ search_last.n < MaxFilters
        /\ s_candidates # <<>>
        /\ s_mem # "null"
        /\ s_candidates' = st.bf
        /\ s_count' = st.count
        /\ s_prev' = [i \in 1..s_num_slots |->
                         IF bit_test(st.bf, i - 1)
                         THEN read_value(later, slot_to_addr(i - 1),
                                         s_data_size)
                         ELSE s_prev[i]]
        /\ search_last' =
               [kind |-> "filter", n |-> search_last.n + 1, op |-> op, p |-> p,
                num |-> num,
                before |-> Candidates, prev |-> s_prev,
                cur |-> [i \in 1..s_num_slots |->
                            read_value(memory, slot_to_addr(i - 1),
                                       s_data_size)]]
        /\ memory' = later
        /\ UNCHANGED <<s_mem, s_data_size, s_alignment, s_base_addr,
                       s_region_size, s_num_slots>>
        /\ SearchStep

\* the running program writes its memory
CoreWritesMemory(img) ==
    /\ memory # img
    /\ memory' = img
    /\ UNCHANGED <<s_mem, s_data_size, s_alignment, s_base_addr,
                   s_region_size, s_num_slots, s_candidates, s_prev, s_count,
                   search_last>>
    /\ SearchStep

SearchOps == {"eq", "ne", "lt", "gt", "le", "ge"}

\* the memory by the time the filter's second pass reads it: as it was in
\* the first pass, or as the core thread has written it since
LaterImages == {memory, MemImages[2]}

\* the numbers a caller filters by
SearchLiterals ==
    {Word(1, 0), Word(255, 0), Word(0, 1), AR_SEARCH_VS_PREV}

\* data_size and alignment of a reset
SearchSizes == {<<1, 1>>, <<2, 1>>, <<2, 2>>, <<4, 4>>, <<1, 2>>, <<3, 0>>}

NextSearch ==
    \/ \E region_id \in {"ram", "tiny", "nope"}, sz \in SearchSizes :
           ar_search_reset(region_id, sz[1], sz[2])
    \/ \E op \in SearchOps, num \in SearchLiterals, later \in LaterImages :
           ar_search_filter(op, FALSE, num, later)
    \/ \E op \in SearchOps, later \in LaterImages :
           ar_search_filter(op, TRUE, Word(0, 0), later)
    \/ ar_search_free
    \/ \E i \in 1..Len(MemImages) : CoreWritesMemory(MemImages[i])

SpecSearch == InitAudio /\ [][NextSearch]_vars

\* ------------------------------------------------------------------------
\* symbols.cpp: the label and comment store
\* ------------------------------------------------------------------------

\* valid_label: the comparisons are on the characters' ASCII codes
valid_label(label) ==
    /\ label # <<>>
    /\ \/ label[1] >= 97 /\ label[1] <= 122
       \/ label[1] >= 65 /\ label[1] <= 90
       \/ label[1] = 95
    /\ \A i \in 2..Len(label) :
           \/ label[i] >= 97 /\ label[i] <= 122
           \/ label[i] >= 65 /\ label[i] <= 90
           \/ label[i] >= 48 /\ label[i] <= 57
           \/ label[i] = 95

\* g_syms[key]: operator[] inserts an empty entry when the key is new
SymAt(key) ==
    IF key \in DOMAIN g_syms THEN g_syms[key]
    ELSE [label |-> <<>>, comment |-> <<>>]

\* the call is recorded, everything outside the store is left alone
SymStep(op, ret, invalid) ==
    /\ sym_last' = [op |-> op, ret |-> ret, invalid |-> invalid,
                    before |-> g_syms]
    /\ UNCHANGED <<bpVars, runVars, audioVars, traceVars, searchVars,
                   toolVars, cmdVars, archVars, gpuVars>>

ar_sym_set_label(region_id, addr, label) ==
    IF ~valid_label(label)
    THEN UNCHANGED g_syms /\ SymStep("set_label", 0, TRUE)
    ELSE /\ g_syms' = (<<region_id, addr>> :>
                          [SymAt(<<region_id, addr>>) EXCEPT !.label = label])
                      @@ g_syms
         /\ SymStep("set_label", 1, FALSE)

ar_sym_delete_label(region_id, addr) ==
    IF <<region_id, addr>> \notin DOMAIN g_syms
    THEN UNCHANGED g_syms /\ SymStep("delete_label", 0, FALSE)
    ELSE /\ g_syms' =
                IF g_syms[<<region_id, addr>>].comment = <<>>
                THEN Restrict(g_syms, DOMAIN g_syms \ {<<region_id, addr>>})
                ELSE [g_syms EXCEPT ![<<region_id, addr>>].label = <<>>]
         /\ SymStep("delete_label", 1, FALSE)

\* ar_sym_set_comment with a comment that is not NULL
ar_sym_set_comment(region_id, addr, comment) ==
    /\ g_syms' = (<<region_id, addr>> :>
                     [SymAt(<<region_id, addr>>) EXCEPT !.comment = comment])
                 @@ g_syms
    /\ SymStep("set_comment", 1, FALSE)

ar_sym_delete_comment(region_id, addr) ==
    IF <<region_id, addr>> \notin DOMAIN g_syms
    THEN UNCHANGED g_syms /\ SymStep("delete_comment", 0, FALSE)
    ELSE /\ g_syms' =
                IF g_syms[<<region_id, addr>>].label = <<>>
                THEN Restrict(g_syms, DOMAIN g_syms \ {<<region_id, addr>>})
                ELSE [g_syms EXCEPT ![<<region_id, addr>>].comment = <<>>]
         /\ SymStep("delete_comment", 1, FALSE)

ar_sym_clear ==
    /\ g_syms' = EmptyMap
    /\ SymStep("clear", 1, FALSE)

\* ar_sym_load, lines 405-410: the object the scanner found is stored
StoresObject(o) ==
    o.has_region /\ o.has_addr /\ (o.label # <<>> \/ o.comment # <<>>)

\* ar_sym_load, lines 352-411, over the objects of the file from number i
\* on; a later object replaces an earlier one with the same key
RECURSIVE LoadFrom(_, _, _)
LoadFrom(syms, objs, i) ==
    IF i > Len(objs) THEN syms
    ELSE LoadFrom(IF StoresObject(objs[i])
                  THEN (<<objs[i].region, objs[i].addr>> :>
                           [label |-> objs[i].label,
                            comment |-> objs[i].comment]) @@ syms
                  ELSE syms,
                  objs, i + 1)

\* ar_sym_load of a readable file that is not empty; objs are the objects
\* its text holds, each with the fields the scanner extracts
ar_sym_load(objs) ==
    /\ g_syms' = LoadFrom(EmptyMap, objs, 1)
    /\ SymStep("load", 1,
               \E i \in 1..Len(objs) :
                   /\ StoresObject(objs[i])
                   /\ objs[i].label # <<>>
                   /\ ~valid_label(objs[i].label))

\* the region ids as characters
RegionText(region_id) ==
    CASE region_id = "ram" -> <<114, 97, 109>>
      [] region_id = "" -> <<>>

RegionOf(txt) ==
    IF txt = <<114, 97, 109>> THEN "ram" ELSE IF txt = <<>> THEN "" ELSE "?"

\* json_write_string, lines 234-247: the characters written for c
Escaped(c) ==
    CASE c = 34 -> <<92, 34>>
      [] c = 92 -> <<92, 92>>
      [] c = 10 -> <<92, 110>>
      [] c = 13 -> <<92, 114>>
      [] c = 9 -> <<92, 116>>
      [] OTHER ->
          IF c < 32
          THEN <<92, 117, 48, 48,
                 (IF c \div 16 < 10 THEN 48 ELSE 87) + (c \div 16),
                 (IF c % 16 < 10 THEN 48 ELSE 87) + (c % 16)>>
          ELSE <<c>>

RECURSIVE EscapeAll(_)
EscapeAll(str) ==
    IF str = <<>> THEN <<>> ELSE Escaped(Head(str)) \o EscapeAll(Tail(str))

json_write_string(str) == <<34>> \o EscapeAll(str) \o <<34>>

\* fprintf("%" PRIu64)
RECURSIVE Decimal(_)
Decimal(n) ==
    IF n < 10 THEN <<48 + n>> ELSE Decimal(n \div 10) \o <<48 + (n % 10)>>

\* ar_sym_save, lines 257-271: the object written for the entry at key
SavedObject(syms, key) ==
    <<32, 32, 123, 34, 114, 101, 103, 105, 111, 110, 34, 58>>
    \o json_write_string(RegionText(key[1]))
    \o <<44, 34, 97, 100, 100, 114, 34, 58>> \o Decimal(key[2])
    \o (IF syms[key].label # <<>>
         THEN <<44, 34, 108, 97, 98, 101, 108, 34, 58>>
              \o json_write_string(syms[key].label)
         ELSE <<>>)
    \o (IF syms[key].comment # <<>>
         THEN <<44, 34, 99, 111, 109, 109, 101, 110, 116, 34, 58>>
              \o json_write_string(syms[key].comment)
         ELSE <<>>)
    \o <<125>>

\* ar_sym_save, lines 254-273: the objects of the keys from address a on
\* (the keys of the store differ in the address only), separated by ",\n"
RECURSIVE SavedFrom(_, _, _)
SavedFrom(syms, a, first) ==
    IF a > 1 THEN <<>>
    ELSE IF <<"ram", a>> \in DOMAIN syms
    THEN (IF first THEN <<>> ELSE <<44, 10>>)
         \o SavedObject(syms, <<"ram", a>>) \o SavedFrom(syms, a + 1, FALSE)
    ELSE SavedFrom(syms, a + 1, first)

\* ar_sym_save: the text of the file
ar_sym_save(syms) == <<91, 10>> \o SavedFrom(syms, 0, TRUE) \o <<10, 93, 10>>

\* json_unescape from position i on
RECURSIVE json_unescape(_, _)
json_unescape(str, i) ==
    IF i > Len(str) THEN <<>>
    ELSE IF str[i] = 92 /\ i + 1 <= Len(str)
    THEN CASE str[i + 1] = 34 -> <<34>> \o json_unescape(str, i + 2)
           [] str[i + 1] = 92 -> <<92>> \o json_unescape(str, i + 2)
           [] str[i + 1] = 110 -> <<10>> \o json_unescape(str, i + 2)
           [] str[i + 1] = 114 -> <<13>> \o json_unescape(str, i + 2)
           [] str[i + 1] = 116 -> <<9>> \o json_unescape(str, i + 2)
           [] str[i + 1] = 117 -> json_unescape(str, i + 6)
           [] OTHER -> <<92>> \o json_unescape(str, i + 1)
    ELSE <<str[i]>> \o json_unescape(str, i + 1)

\* parse_json_string, lines 310-322: the raw characters from pos on and
\* the position after the closing quote
RECURSIVE RawString(_, _, _)
RawString(data, pos, raw) ==
    IF pos > Len(data) THEN [raw |-> raw, pos |-> pos]
    ELSE IF data[pos] = 92 /\ pos + 1 <= Len(data)
    THEN RawString(data, pos + 2, raw \o <<data[pos], data[pos + 1]>>)
    ELSE IF data[pos] = 34 THEN [raw |-> raw, pos |-> pos + 1]
    ELSE RawString(data, pos + 1, Append(raw, data[pos]))

\* parse_json_string(data, pos): the string and the position after it
parse_json_string(data, pos) ==
    IF pos > Len(data) \/ data[pos] # 34 THEN [val |-> <<>>, pos |-> pos]
    ELSE [val |-> json_unescape(RawString(data, pos + 1, <<>>).raw, 1),
          pos |-> RawString(data, pos + 1, <<>>).pos]

\* parse_json_number(data, pos): the number and the position after it
RECURSIVE parse_json_number(_, _, _)
parse_json_number(data, pos, val) ==
    IF pos <= Len(data) /\ data[pos] >= 48 /\ data[pos] <= 57
    THEN parse_json_number(data, pos + 1, val * 10 + (data[pos] - 48))
    ELSE [val |-> val, pos |-> pos]

\* the first position from pos on whose character is not in skip
RECURSIVE SkipChars(_, _, _)
SkipChars(data, pos, skip) ==
    IF pos <= Len(data) /\ data[pos] \in skip
    THEN SkipChars(data, pos + 1, skip) ELSE pos

NoObject == [has_region |-> FALSE, region |-> "", has_addr |-> FALSE,
             addr |-> 0, label |-> <<>>, comment |-> <<>>]

\* ar_sym_load, lines 367-399: the key-value pairs of an object from pos
\* on; o holds the fields found so far
RECURSIVE ScanPairs(_, _, _)
ScanPairs(data, pos, o) ==
    LET p1 == SkipChars(data, pos, {32, 9, 10, 13, 44})
        key == parse_json_string(data, p1)
        p2 == SkipChars(data, key.pos, {58, 32, 9})
        str == parse_json_string(data, p2)
        num == parse_json_number(data, p2, 0)
    IN  IF pos > Len(data) \/ data[pos] = 125 THEN [o |-> o, pos |-> pos]
        ELSE IF p1 > Len(data) \/ data[p1] = 125 THEN [o |-> o, pos |-> p1]
        ELSE IF key.val = <<>> THEN [o |-> o, pos |-> key.pos]
        ELSE IF p2 > Len(data) THEN [o |-> o, pos |-> p2]
        ELSE IF data[p2] = 34
        THEN ScanPairs(data, str.pos,
                 IF key.val = <<114, 101, 103, 105, 111, 110>>
                 THEN [o EXCEPT !.region = RegionOf(str.val),
                                !.has_region = TRUE]
                 ELSE IF key.val = <<108, 97, 98, 101, 108>>
                 THEN [o EXCEPT !.label = str.val]
                 ELSE IF key.val = <<99, 111, 109, 109, 101, 110, 116>>
                 THEN [o EXCEPT !.comment = str.val]
                 ELSE o)
        ELSE IF data[p2] >= 48 /\ data[p2] <= 57
        THEN ScanPairs(data, num.pos,
                 IF key.val = <<97, 100, 100, 114>>
                 THEN [o EXCEPT !.addr = num.val, !.has_addr = TRUE]
                 ELSE o)
        ELSE ScanPairs(data, p2 + 1, o)

\* ar_sym_load, lines 352-403: the objects of the text from pos on
RECURSIVE ScanObjects(_, _)
ScanObjects(data, pos) ==
    LET opens == {i \in pos..Len(data) : data[i] = 123}
        r == ScanPairs(data, MinOf(opens) + 1, NoObject)
    IN  IF opens = {} THEN <<>>
        ELSE <<r.o>> \o ScanObjects(data,
                            IF r.pos <= Len(data) /\ data[r.pos] = 125
                            THEN r.pos + 1 ELSE r.pos)

\* the labels and comments callers give: "a", "_9", "Az", "", "9", "a b",
\* "a{"; "", "x", "x" followed by the control character 0x01
SymLabels ==
    {<<97>>, <<95, 57>>, <<65, 122>>, <<>>, <<57>>, <<97, 32, 98>>,
     <<97, 123>>}

SymComments == {<<>>, <<120>>, <<120, 1>>}

SymKeys == {<<"ram", 0>>, <<"ram", 1>>}

Obj(has_region, has_addr, addr, label, comment) ==
    [has_region |-> has_region, region |-> IF has_region THEN "ram" ELSE "",
     has_addr |-> has_addr, addr |-> addr, label |-> label,
     comment |-> comment]

\* the objects a symbol file holds
SymObjects ==
    { Obj(TRUE, TRUE, 0, <<97>>, <<>>),
      Obj(TRUE, TRUE, 1, <<>>, <<120>>),
      Obj(TRUE, TRUE, 1, <<>>, <<>>),
      Obj(TRUE, FALSE, 0, <<97>>, <<120>>),
      Obj(TRUE, TRUE, 0, <<57>>, <<120>>) }

\* a symbol file holds at most MaxObjects objects
MaxObjects == 2

\* the store is saved (auto_save) and the saved file is loaded again
SymSaveLoad ==
    /\ g_syms # EmptyMap
    /\ g_syms' = LoadFrom(EmptyMap, ScanObjects(ar_sym_save(g_syms), 1), 1)
    /\ SymStep("reload", 1, FALSE)

NextSym ==
    \/ \E k \in SymKeys, label \in SymLabels :
           ar_sym_set_label(k[1], k[2], label)
    \/ \E k \in SymKeys : ar_sym_delete_label(k[1], k[2])
    \/ \E k \in SymKeys, comment \in SymComments :
           ar_sym_set_comment(k[1], k[2], comment)
    \/ \E k \in SymKeys : ar_sym_delete_comment(k[1], k[2])
    \/ ar_sym_clear
    \/ \E objs \in UNION {[1..n -> SymObjects] : n \in 1..MaxObjects} :
           ar_sym_load(objs)
    \/ SymSaveLoad

SpecSym == InitAudio /\ [][NextSym]_vars

\* ------------------------------------------------------------------------
\* symbols.cpp: address resolution through the memory maps
\* ------------------------------------------------------------------------

\* one rd_MemoryMap entry; source is "none" for NULL
Rng(base_addr, size, source, source_base_addr) ==
    [base_addr |-> base_addr, size |-> size, source |-> source,
     source_base_addr |-> source_base_addr]

\* backend.cpp, ar_find_memory_by_id(id) # NULL: a CPU's region, a region
\* of the system, or a source of the CPU region's memory map
FindMemory(id) ==
    \/ id \in mem_listed
    \/ \E j \in 1..Len(mem_maps[CpuRegion]) :
           mem_maps[CpuRegion][j].source = id

\* ar_sym_resolve, lines 82-93: the entries of maps that have a source and
\* cover cur_addr
Covering(maps, cur_addr) ==
    {i \in 1..Len(maps) :
        /\ maps[i].source # "none"
        /\ cur_addr >= maps[i].base_addr
        /\ cur_addr < maps[i].base_addr + maps[i].size}

ResolveResult(found, region, addr, hops) ==
    [found |-> found, region_id |-> region, addr |-> addr, hops |-> hops]

\* the loop of ar_sym_resolve with cycles detected on (region, address)
\* points
RECURSIVE ResolveByPoint(_, _, _, _)
ResolveByPoint(visited, cur_region, cur_addr, hops) ==
    IF <<cur_region, cur_addr>> \in visited
    THEN ResolveResult(FALSE, "", 0, hops)
    ELSE IF ~FindMemory(cur_region)
    THEN IF visited = {} THEN ResolveResult(FALSE, "", 0, hops)
         ELSE ResolveResult(TRUE, cur_region, cur_addr, hops)
    ELSE IF cur_region \notin DOMAIN mem_maps
            \/ Covering(mem_maps[cur_region], cur_addr) = {}
    THEN ResolveResult(TRUE, cur_region, cur_addr, hops)
    ELSE LET m == mem_maps[cur_region][
                      MinOf(Covering(mem_maps[cur_region], cur_addr))]
         IN  ResolveByPoint(visited \cup {<<cur_region, cur_addr>>},
                            m.source,
                            m.source_base_addr + (cur_addr - m.base_addr),
                            hops + 1)

\* the loop of ar_sym_resolve giving no result when a source is not found
RECURSIVE ResolveStrict(_, _, _, _)
ResolveStrict(visited, cur_region, cur_addr, hops) ==
    IF cur_region \in visited THEN ResolveResult(FALSE, "", 0, hops)
    ELSE IF ~FindMemory(cur_region)
    THEN ResolveResult(FALSE, "", 0, hops)
    ELSE IF cur_region \notin DOMAIN mem_maps
            \/ Covering(mem_maps[cur_region], cur_addr) = {}
    THEN ResolveResult(TRUE, cur_region, cur_addr, hops)
    ELSE LET m == mem_maps[cur_region][
                      MinOf(Covering(mem_maps[cur_region], cur_addr))]
         IN  ResolveStrict(visited \cup {cur_region}, m.source,
                           m.source_base_addr + (cur_addr - m.base_addr),
                           hops + 1)

\* the loop of ar_sym_resolve, lines 60-99, entered with the regions
\* visited so far; hops counts the source links followed
RECURSIVE ResolveFrom(_, _, _, _)
ResolveFrom(visited, cur_region, cur_addr, hops) ==
    IF cur_region \in visited THEN ResolveResult(FALSE, "", 0, hops)
    ELSE IF ~FindMemory(cur_region)
    THEN IF visited = {} THEN ResolveResult(FALSE, "", 0, hops)
         ELSE ResolveResult(TRUE, cur_region, cur_addr, hops)
    ELSE IF cur_region \notin DOMAIN mem_maps
            \/ Covering(mem_maps[cur_region], cur_addr) = {}
    THEN ResolveResult(TRUE, cur_region, cur_addr, hops)
    ELSE LET m == mem_maps[cur_region][
                      MinOf(Covering(mem_maps[cur_region], cur_addr))]
         IN  ResolveFrom(visited \cup {cur_region}, m.source,
                         m.source_base_addr + (cur_addr - m.base_addr),
                         hops + 1)

ToolStep ==
    UNCHANGED <<bpVars, runVars, audioVars, traceVars, searchVars, symVars,
                cmdVars, archVars, gpuVars>>

\* ar_sym_resolve(region_id, addr)
ar_sym_resolve(region_id, addr) ==
    LET r == ResolveFrom({}, region_id, addr, 0)
    IN  /\ resolve_last' = [called |-> TRUE, region_id |-> region_id,
                            addr |-> addr, found |-> r.found,
                            out_region |-> r.region_id, out_addr |-> r.addr,
                            hops |-> r.hops]
        /\ UNCHANGED <<mem_listed, mem_maps>>
        /\ ToolStep

\* the memory maps a region can have: none, one window, or a window
\* behind an unbacked one
MapChoices ==
    {<<>>}
    \cup {<<Rng(0, 2, src, sb)>> : src \in RegionIds, sb \in {0, 1}}
    \cup {<<Rng(0, 1, "none", 0), Rng(1, 2, src, 0)>> : src \in RegionIds}

\* the core is loaded: it describes its memory regions and their maps
CoreDescribesMemory(listed, maps) ==
    /\ resolve_last = NoResolve
    /\ mem_listed = {CpuRegion}
    /\ mem_maps = [r \in RegionIds |-> <<>>]
    /\ <<listed, maps>> # <<mem_listed, mem_maps>>
    /\ mem_listed' = listed
    /\ mem_maps' = maps
    /\ UNCHANGED resolve_last
    /\ ToolStep

NextResolve ==
    \/ \E listed \in {{CpuRegion}, RegionIds},
          maps \in [RegionIds -> MapChoices] :
           CoreDescribesMemory(listed, maps)
    \/ \E region_id \in RegionIds \cup {"nope"}, addr \in 0..2 :
           ar_sym_resolve(region_id, addr)

SpecResolve == InitAudio /\ [][NextResolve]_vars

\* ------------------------------------------------------------------------
\* arch/: the disassemblers. An Instruction is modelled by its address,
\* length and is_error; a buffer is a sequence of bytes, pos counts from 0.
\* ------------------------------------------------------------------------

\* the longest buffer disassembled
MaxDisLen == 5

Instruction(address, length, is_error) ==
    [address |-> address, length |-> length, is_error |-> is_error]

\* lr35902.cpp, base_ops: the entries without format (0xCB, the prefix,
\* among them), with one and with two immediate bytes
base_ops_und ==
    {203, 211, 219, 221, 227, 228, 235, 236, 237, 244, 252, 253}

base_ops_imm1 ==
    {6, 14, 16, 22, 24, 30, 32, 38, 40, 46, 48, 54, 56, 62, 198, 206, 214,
     222, 224, 230, 232, 238, 240, 246, 248, 254}

base_ops_imm2 ==
    {1, 8, 17, 33, 49, 194, 195, 196, 202, 204, 205, 210, 212, 218, 220,
     234, 250}

\* dis_lr35902 from position pos on
RECURSIVE Lr35902From(_, _, _)
Lr35902From(data, base_addr, pos) ==
    LET addr == base_addr + pos
        op == data[pos + 1]
        total == 1 + (IF op \in base_ops_imm1 THEN 1
                      ELSE IF op \in base_ops_imm2 THEN 2 ELSE 0)
    IN  IF pos >= Len(data) THEN <<>>
        ELSE IF op = 203
        THEN IF pos + 1 >= Len(data)
             THEN <<Instruction(addr, 1, TRUE)>>
             ELSE <<Instruction(addr, 2, FALSE)>>
                  \o Lr35902From(data, base_addr, pos + 2)
        ELSE IF op \in base_ops_und
        THEN <<Instruction(addr, 1, TRUE)>>
             \o Lr35902From(data, base_addr, pos + 1)
        ELSE IF pos + total > Len(data)
        THEN <<Instruction(addr, 1, TRUE)>>
        ELSE <<Instruction(addr, total, FALSE)>>
             \o Lr35902From(data, base_addr, pos + total)

dis_lr35902(data, base_addr) == Lr35902From(data, base_addr, 0)

\* mos6502.cpp, ops_6502: the entries without format, with one and with
\* two immediate bytes
ops_6502_und ==
    {2, 3, 4, 7, 11, 12, 15, 18, 19, 20, 23, 26, 27, 28, 31, 34, 35, 39,
     43, 47, 50, 51, 52, 55, 58, 59, 60, 63, 66, 67, 68, 71, 75, 79, 82,
     83, 84, 87, 90, 91, 92, 95, 98, 99, 100, 103, 107, 111, 114, 115,
     116, 119, 122, 123, 124, 127, 128, 130, 131, 135, 137, 139, 143, 146,
     147, 151, 155, 156, 158, 159, 163, 167, 171, 175, 178, 179, 183, 187,
     191, 194, 195, 199, 203, 207, 210, 211, 212, 215, 218, 219, 220, 223,
     226, 227, 231, 235, 239, 242, 243, 244, 247, 250, 251, 252, 255}

ops_6502_imm1 ==
    {1, 5, 6, 9, 16, 17, 21, 22, 33, 36, 37, 38, 41, 48, 49, 53, 54, 65,
     69, 70, 73, 80, 81, 85, 86, 97, 101, 102, 105, 112, 113, 117, 118,
     129, 132, 133, 134, 144, 145, 148, 149, 150, 160, 161, 162, 164, 165,
     166, 169, 176, 177, 180, 181, 182, 192, 193, 196, 197, 198, 201, 208,
     209, 213, 214, 224, 225, 228, 229, 230, 233, 240, 241, 245, 246}

ops_6502_imm2 ==
    {13, 14, 25, 29, 30, 32, 44, 45, 46, 57, 61, 62, 76, 77, 78, 89, 93,
     94, 108, 109, 110, 121, 125, 126, 140, 141, 142, 153, 157, 172, 173,
     174, 185, 188, 189, 190, 204, 205, 206, 217, 221, 222, 236, 237, 238,
     249, 253, 254}

\* dis_6502 from position pos on
RECURSIVE Mos6502From(_, _, _)
Mos6502From(data, base_addr, pos) ==
    LET addr == base_addr + pos
        op == data[pos + 1]
        total == 1 + (IF op \in ops_6502_imm1 THEN 1
                      ELSE IF op \in ops_6502_imm2 THEN 2 ELSE 0)
    IN  IF pos >= Len(data) THEN <<>>
        ELSE IF op \in ops_6502_und
        THEN <<Instruction(addr, 1, TRUE)>>
             \o Mos6502From(data, base_addr, pos + 1)
        ELSE IF pos + total > Len(data)
        THEN <<Instruction(addr, 1, TRUE)>>
        ELSE <<Instruction(addr, total, FALSE)>>
             \o Mos6502From(data, base_addr, pos + total)

dis_6502(data, base_addr) == Mos6502From(data, base_addr, 0)

\* r3000a.cpp: the fields of the word whose bytes are b0 (lowest) .. b3
field_op(b3) == b3 \div 4

field_rs(b2, b3) == (b3 % 4) * 8 + (b2 \div 32)

field_rt(b2) == b2 % 32

field_funct(b0) == b0 % 64

\* the case labels of decode_special, decode_regimm and dis_r3000a, and
\* the functs of gte_cmds
special_functs ==
    {0, 2, 3, 4, 6, 7, 8, 9, 12, 13, 16, 17, 18, 19, 24, 25, 26, 27, 32, 33,
     34, 35, 36, 37, 38, 39, 42, 43}

regimm_rts == {0, 1, 16, 17}

primary_ops ==
    {0, 1, 2, 3, 4, 5, 6, 7, 8, 9, 10, 11, 12, 13, 14, 15, 16, 18, 32, 33,
     34, 35, 36, 37, 38, 40, 41, 42, 43, 46, 50, 58}

gte_cmds ==
    {1, 6, 12, 16, 17, 18, 19, 20, 22, 27, 28, 30, 32, 40, 41, 42, 45, 46,
     48, 61, 62, 63}

\* decode_cop0: is_error of the instruction returned
decode_cop0(b0, b2, b3) ==
    CASE field_rs(b2, b3) \in {0, 2, 4, 6} -> FALSE
      [] field_rs(b2, b3) = 8 -> field_rt(b2) \notin {0, 1}
      [] field_rs(b2, b3) = 16 -> field_funct(b0) # 16
      [] OTHER -> TRUE

\* decode_cop2: is_error of the instruction returned
decode_cop2(b0, b2, b3) ==
    IF (b3 \div 2) % 2 = 1 THEN field_funct(b0) \notin gte_cmds
    ELSE CASE field_rs(b2, b3) \in {0, 2, 4, 6} -> FALSE
           [] field_rs(b2, b3) = 8 -> field_rt(b2) \notin {0, 1}
           [] OTHER -> TRUE

\* dis_r3000a, lines 416-608: is_error of the instruction decoded
R3000aError(b0, b2, b3) ==
    CASE field_op(b3) = 0 -> field_funct(b0) \notin special_functs
      [] field_op(b3) = 1 -> field_rt(b2) \notin regimm_rts
      [] field_op(b3) = 16 -> decode_cop0(b0, b2, b3)
      [] field_op(b3) = 18 -> decode_cop2(b0, b2, b3)
      [] OTHER -> field_op(b3) \notin primary_ops

\* dis_r3000a from position pos on
RECURSIVE R3000aFrom(_, _, _)
R3000aFrom(data, base_addr, pos) ==
    IF pos + 4 <= Len(data)
    THEN <<Instruction(base_addr + pos, 4,
                       R3000aError(data[pos + 1], data[pos + 3],
                                   data[pos + 4]))>>
         \o R3000aFrom(data, base_addr, pos + 4)
    ELSE <<>>

dis_r3000a(data, base_addr) == R3000aFrom(data, base_addr, 0)

\* arch.cpp, disassemble: by the CPU type's entry of arch_table
disassemble(data, base_addr, cpu_type) ==
    CASE cpu_type = "LR35902" -> dis_lr35902(data, base_addr)
      [] cpu_type = "6502" -> dis_6502(data, base_addr)
      [] cpu_type = "R3000A" -> dis_r3000a(data, base_addr)
      [] OTHER -> <<>>

\* arch_table: the alignment of the CPU type
Alignment(cpu_type) == IF cpu_type = "R3000A" THEN 4 ELSE 1

\* the bytes buffers are made of: for the LR35902 NOP, the CB prefix, an
\* undefined opcode, LD A,d8 and JP a16; for the 6502 NOP, an undefined
\* opcode, LDA #d8 and JMP a16; for the R3000A bytes that give the words
\* NOP, SYSCALL, JAL, an undefined funct and an undefined opcode
DisBytes(cpu_type) ==
    CASE cpu_type = "LR35902" -> {0, 203, 211, 62, 195}
      [] cpu_type = "6502" -> {234, 2, 169, 76}
      [] cpu_type = "R3000A" -> {0, 12, 252}

DisLen(cpu_type) == IF cpu_type = "R3000A" THEN MaxDisLen ELSE 3

CpuTypes == {"LR35902", "6502", "R3000A"}

DisBuffers(cpu_type) ==
    UNION {[1..n -> DisBytes(cpu_type)] : n \in 0..DisLen(cpu_type)}

\* the dis verb, the trace and the disassembly view call disassemble; the
\* function keeps no state, so one call per behaviour shows all it does
Disassemble(cpu_type, data, base_addr) ==
    /\ ~dis_last.called
    /\ dis_last' = [called |-> TRUE, cpu_type |-> cpu_type, data |-> data,
                    base_addr |-> base_addr,
                    out |-> disassemble(data, base_addr, cpu_type)]
    /\ UNCHANGED <<bpVars, runVars, audioVars, traceVars, searchVars,
                   symVars, toolVars, cmdVars, unw, gpuVars>>

NextDis ==
    \E cpu_type \in CpuTypes, base_addr \in {0, 1, 4} :
        \E data \in DisBuffers(cpu_type) :
            Disassemble(cpu_type, data, base_addr)

SpecDis == InitAudio /\ [][NextDis]_vars

\* ------------------------------------------------------------------------
\* arch/r3000a_stack.cpp: the stack unwinder, one step per loop iteration.
\* back_n and fwd_n count the instructions the current backward and forward
\* scan has read.
\* ------------------------------------------------------------------------

MAX_SCAN_INSNS == 2000

MAX_FRAME_SIZE == U32(1, 0)

KSEG0_BASE == U32(32768, 0)

\* uint32_t arithmetic, modulo 2^32
Add32(a, b) ==
    U32((a[1] + b[1] + ((a[2] + b[2]) \div 65536)) % 65536,
        (a[2] + b[2]) % 65536)

Sub32(a, b) ==
    U32((a[1] - b[1] - (IF a[2] < b[2] THEN 1 ELSE 0) + 65536) % 65536,
        (a[2] - b[2] + 65536) % 65536)

Lt32(a, b) == a[1] < b[1] \/ (a[1] = b[1] /\ a[2] < b[2])

Small(n) == U32(0, n)

\* is_ram_addr: 2 MB at 0x00000000, 0x80000000 and 0xA0000000
is_ram_addr(addr) ==
    \/ addr[1] < 32
    \/ addr[1] >= 32768 /\ addr[1] < 32800
    \/ addr[1] >= 40960 /\ addr[1] < 40992

\* the memory contents: the word at an aligned address. "nop": zeroes;
\* "chain": functions of two instructions (addiu sp,sp,-8; sw ra,0(sp))
\* and stacks full of the return address 0x80010008; "ends": the same
\* code, stacks full of zeroes; "odd": addiu sp,sp,-6 everywhere
Images == {"nop", "chain", "ends", "odd"}

WordAt(img, a) ==
    CASE img = "nop" -> U32(0, 0)
      [] img = "odd" -> U32(10173, 65530)
      [] OTHER ->
          IF a[1] >= 32784
          THEN (IF img = "chain" THEN U32(32769, 8) ELSE U32(0, 0))
          ELSE IF a[2] % 8 = 0 THEN U32(10173, 65528) ELSE U32(44991, 0)

\* mem->v1.peek(mem, addr, false)
peek(img, addr) ==
    LET w == WordAt(img, U32(addr[1], addr[2] - (addr[2] % 4)))
    IN  CASE addr[2] % 4 = 0 -> w[2] % 256
          [] addr[2] % 4 = 1 -> w[2] \div 256
          [] addr[2] % 4 = 2 -> w[1] % 256
          [] addr[2] % 4 = 3 -> w[1] \div 256

read32(img, addr) ==
    U32(peek(img, Add32(addr, Small(2)))
            + 256 * peek(img, Add32(addr, Small(3))),
        peek(img, addr) + 256 * peek(img, Add32(addr, Small(1))))

\* a scan bound that forgets the 2000 instructions
scan_limit_addr_unbounded(scan_pc) ==
    IF Lt32(scan_pc, KSEG0_BASE) THEN U32(0, 0) ELSE KSEG0_BASE

\* lines 80-90: the lower bound of the backward scan
scan_limit_addr(scan_pc) ==
    IF Lt32(scan_pc, KSEG0_BASE)
    THEN IF Lt32(Small(MAX_SCAN_INSNS * 4), scan_pc)
         THEN Sub32(scan_pc, Small(MAX_SCAN_INSNS * 4))
         ELSE U32(0, 0)
    ELSE IF Lt32(Small(MAX_SCAN_INSNS * 4), Sub32(scan_pc, KSEG0_BASE))
         THEN Sub32(scan_pc, Small(MAX_SCAN_INSNS * 4))
         ELSE KSEG0_BASE

Done(u, status) == [u EXCEPT !.at = "done", !.status = status]

UnwStep == UNCHANGED <<bpVars, runVars, audioVars, traceVars, searchVars,
                       symVars, toolVars, cmdVars, dis_last, gpuVars>>

\* lines 46-63: the call; has_mem is whether the CPU has a memory region
r3000a_stack_trace(reg_pc, reg_sp, reg_ra, max_depth, img, has_mem) ==
    /\ unw.at = "idle"
    /\ unw' = IF ~has_mem THEN Done(unw, "READ_ERROR")
              ELSE [unw EXCEPT !.at = "loop", !.img = img,
                               !.max_depth = max_depth, !.pc = reg_pc,
                               !.sp = reg_sp, !.ra = reg_ra,
                               !.frames = <<[pc |-> reg_pc, sp |-> reg_sp]>>]
    /\ UnwStep

\* lines 65-90 and 179-180: the head of the frame loop
UnwindLoop ==
    /\ unw.at = "loop"
    /\ unw' = IF unw.depth >= unw.max_depth THEN Done(unw, "MAX_DEPTH")
              ELSE IF unw.ra = U32(0, 0) THEN Done(unw, "OK")
              ELSE IF unw.ra[2] % 4 # 0 \/ ~is_ram_addr(unw.ra)
              THEN Done(unw, "INVALID_RA")
              ELSE [unw EXCEPT !.at = "back", !.scan_pc = unw.pc,
                               !.addr = unw.pc,
                               !.limit = scan_limit_addr(unw.pc),
                               !.frame_size = U32(0, 0),
                               !.ra_offset = UINT32_MAX,
                               !.func_start = UINT32_MAX,
                               !.found_addiu_sp = FALSE,
                               !.back_n = 0, !.fwd_n = 0]
    /\ UnwStep

\* lines 92-111: one iteration of the backward scan, or its end
UnwindBack ==
    /\ unw.at = "back"
    /\ LET insn == read32(unw.img, Sub32(unw.addr, Small(4)))
       IN  unw' =
             IF ~Lt32(unw.limit, unw.addr) \/ Lt32(unw.addr, Small(4))
             THEN [unw EXCEPT !.at = "next"]
             ELSE IF insn[1] = 10173 /\ insn[2] >= 32768
             THEN LET fs == Small(65536 - insn[2])
                      u == [unw EXCEPT !.frame_size = fs,
                                       !.func_start = Sub32(unw.addr, Small(4)),
                                       !.found_addiu_sp = TRUE,
                                       !.back_n = @ + 1]
                  IN  IF Lt32(MAX_FRAME_SIZE, fs) THEN Done(u, "SCAN_LIMIT")
                      ELSE [u EXCEPT !.at = "fwd", !.addr = u.func_start]
             ELSE [unw EXCEPT !.addr = Sub32(@, Small(4)), !.back_n = @ + 1]
    /\ UnwStep

\* lines 113-124: one iteration of the forward scan, or its end
UnwindForward ==
    /\ unw.at = "fwd"
    /\ LET insn == read32(unw.img, unw.addr)
       IN  unw' =
             IF ~(Lt32(unw.addr, Add32(unw.func_start, Small(40)))
                  /\ Lt32(unw.addr, unw.scan_pc))
             THEN [unw EXCEPT !.at = "next"]
             ELSE IF insn[1] = 44991
             THEN [unw EXCEPT !.ra_offset = Small(insn[2]), !.at = "next",
                              !.fwd_n = @ + 1]
             ELSE [unw EXCEPT !.addr = Add32(@, Small(4)), !.fwd_n = @ + 1]
    /\ UnwStep

\* lines 126-177: the caller's frame
UnwindNext ==
    /\ unw.at = "next"
    /\ LET saved == unw.ra_offset # UINT32_MAX /\ unw.found_addiu_sp
           next_ra == IF saved
                      THEN read32(unw.img, Add32(unw.sp, unw.ra_offset))
                      ELSE unw.ra
           frame_size == IF ~saved /\ ~unw.found_addiu_sp THEN U32(0, 0)
                         ELSE unw.frame_size
           next_sp == Add32(unw.sp, frame_size)
           pushed == [unw EXCEPT !.frames =
                          Append(@, [pc |-> next_ra, sp |-> next_sp])]
       IN  unw' =
             IF ~saved /\ unw.depth # 0 THEN Done(unw, "SCAN_LIMIT")
             ELSE IF frame_size # U32(0, 0)
                     /\ (Lt32(next_sp, unw.sp) \/ next_sp[2] % 4 # 0)
             THEN Done(unw, "INVALID_SP")
             ELSE IF next_ra = U32(0, 0) THEN Done(pushed, "OK")
             ELSE [pushed EXCEPT !.at = "loop", !.pc = next_ra,
                                 !.sp = next_sp, !.ra = next_ra,
                                 !.depth = @ + 1]
    /\ UnwStep

\* the registers the unwinder is called with: PC 0, 0x2000, 0x80010006,
\* 0x80010008, 0xFFFFFFFE; SP 0x801FFF00, 0xFFFFFFFC; RA 0, 0x80010002,
\* 0x80010008, 0x1F000000
UnwindPcs ==
    {U32(0, 0), U32(0, 8192), U32(32769, 6), U32(32769, 8),
     U32(65535, 65534)}

UnwindSps == {U32(32799, 65280), U32(65535, 65532)}

UnwindRas == {U32(0, 0), U32(32769, 2), U32(32769, 8), U32(7936, 0)}

UnwindDepths == {0, 2}

NextUnwind ==
    \/ \E reg_pc \in UnwindPcs, reg_sp \in UnwindSps, reg_ra \in UnwindRas,
          max_depth \in UnwindDepths, img \in Images, has_mem \in BOOLEAN :
           r3000a_stack_trace(reg_pc, reg_sp, reg_ra, max_depth, img, has_mem)
    \/ UnwindLoop
    \/ UnwindBack
    \/ UnwindForward
    \/ UnwindNext

\* the call runs on the caller's thread, which is not stopped midway
SpecUnwind == InitAudio /\ [][NextUnwind]_vars /\ WF_vars(NextUnwind)

\* ------------------------------------------------------------------------
\* Properties of the breakpoint engine
\* ------------------------------------------------------------------------

\* the subscriptions the engine holds alive, each with the record owning it
BpSubscriptions ==
    {<<g_sub_to_bp[s], subs[s]>> : s \in DOMAIN g_sub_to_bp \cap DOMAIN subs}

\* the subscriptions the enabled records require
RequiredSubscriptions ==
    {<<id, ExecSub(find_cpu(g_bps[id].cpu_id), FALSE, g_bps[id].address, "RD_STEP")>> :
        id \in {i \in DOMAIN g_bps : g_bps[i].enabled /\ HasX(g_bps[i].flags)}}
    \cup
    {<<id, MemSub(memory_region(find_cpu(g_bps[id].cpu_id)), g_bps[id].address,
                 MemOp(g_bps[id].flags))>> :
        id \in {i \in DOMAIN g_bps :
                  g_bps[i].enabled /\ (HasR(g_bps[i].flags) \/ HasW(g_bps[i].flags))}}

\* C2: after every breakpoint mutation has returned, the breakpoint
\* subscriptions alive in the core are exactly one execution subscription
\* per enabled record with the X flag and one memory subscription per
\* enabled record with the R or W flag, and nothing else.
C2_SubscriptionsMatchRecords ==
    /\ DOMAIN g_sub_to_bp \subseteq DOMAIN subs
    /\ Cardinality(DOMAIN g_sub_to_bp) = Cardinality(RequiredSubscriptions)
    /\ BpSubscriptions = RequiredSubscriptions

\* the record table and the alive breakpoint subscriptions are as before
BpRolledBack ==
    /\ g_bps' = g_bps
    /\ BpSubscriptions' = BpSubscriptions
    /\ Cardinality(DOMAIN g_sub_to_bp') = Cardinality(DOMAIN g_sub_to_bp)

\* C3: when a subscription required by the new or the replacing record
\* fails, ar_bp_add returns -1 and ar_bp_replace returns false, and the
\* record table and the alive breakpoint subscriptions are the same as
\* before the call.
C3_AddReplaceRollBack ==
    [][ /\ (bp_last'.op = "add" /\ bp_last'.refused)
              => (bp_last'.ret = -1 /\ BpRolledBack)
        /\ (bp_last'.op = "replace" /\ bp_last'.refused)
              => (bp_last'.ret = 0 /\ BpRolledBack) ]_vars

\* an add was refused while another record held subscriptions
C3_Witness ==
    /\ bp_last = [op |-> "add", ret |-> -1, refused |-> TRUE]
    /\ DOMAIN g_sub_to_bp # {}
    /\ g_bps # EmptyMap

\* C13: a successful ar_bp_add returns an id that is at least 1 and greater
\* than every id allocated before, whatever became of those records; no id
\* is allocated twice
C13_IdsStrictlyIncrease ==
    /\ ~bp_reused
    /\ \A id \in bp_allocated : id >= 1
    /\ bp_last.op = "add" /\ bp_last.ret # -1 =>
           /\ bp_last.ret \in bp_allocated
           /\ \A j \in bp_allocated : j <= bp_last.ret

\* an add succeeded after earlier ids were rolled back, deleted or cleared
C13_Witness ==
    /\ bp_last.op = "add"
    /\ bp_last.ret = MaxId
    /\ DOMAIN g_bps = {MaxId}

\* the records of a table in the order of their ids, without the ids
RECURSIVE RecordsFrom(_, _)
RecordsFrom(bps, id) ==
    IF id > MaxId THEN <<>>
    ELSE (IF id \in DOMAIN bps
          THEN <<Req(bps[id].address, bps[id].flags, bps[id].enabled,
                     bps[id].temporary, bps[id].condition, bps[id].cpu_id)>>
          ELSE <<>>)
         \o RecordsFrom(bps, id + 1)

\* C23: saving a table, clearing it and loading the saved file, with no
\* subscription refused, gives as many records as were saved, equal to
\* them in address, flags, enabled, temporary, condition and CPU id and in
\* the same order, under ids not used before
C23_SaveLoadRoundTrip ==
    (/\ bp_last.op = "reload"
     /\ \A id \in DOMAIN bp_last.before :
            ~SubscriptionFails(bp_last.before[id]))
    => /\ RecordsFrom(g_bps, 1) = RecordsFrom(bp_last.before, 1)
       /\ \A id \in DOMAIN g_bps, j \in DOMAIN bp_last.before : id > j

\* ------------------------------------------------------------------------
\* Properties of the runtime
\* ------------------------------------------------------------------------

\* C1: a breakpoint never halts the core (handler returning true, or
\* blocking the core thread) twice at the same execution address of a CPU
\* unless that CPU's PC was seen at another address in between.
C1_NoRepeatedHalt == halts_here <= 1

\* C4: whenever the core executes again after a breakpoint or step halt -
\* resumed from BLOCKED, or started on the next frame after a clean halt -
\* ar_debug_set_skip was called since the halt.
C4_SkipBeforeResume == corePos \in {"start", "run"} => ~skip_due

\* C5: when the next frame starts, every temporary breakpoint whose hit
\* halted the core has been deleted by the frontend's main loop.
C5_TemporaryDeletedBeforeNextFrame ==
    corePos = "start" =>
        \A i \in 1..Len(g_deferred_deletes) :
            g_deferred_deletes[i] \notin DOMAIN g_bps

\* C6: ar_core_thread_stop always returns: it never waits in join() for a
\* core thread that waits in the event handler for g_block_resume.
C6_StopReleasesCore ==
    ~(At("join") /\ corePos = "hwait" /\ ~g_block_resume)

\* the subscriptions of the trace engine and of the skip map
HousekeepingSubs == g_trace_subs \cup Range(g_skip_temp_subs)

\* C7: an event delivered on a subscription of the trace engine or on a
\* skip-map temporary subscription never halts or blocks the core: the core
\* goes on, and g_core_state, g_step_complete, g_bp_hit_id and the
\* deferred-delete list are unchanged.
C7_HousekeepingNeverHalts ==
    [][ \A sub_id \in HousekeepingSubs :
            (sub_id \in delivered' /\ sub_id \notin delivered)
                => /\ corePos' = "run"
                   /\ UNCHANGED <<g_core_state, g_step_complete, g_bp_hit_id,
                                  g_deferred_deletes>> ]_vars

\* a housekeeping subscription received the event of the instruction at
\* PC, an address a breakpoint subscription covers as well
C7_Witness ==
    /\ corePos = "run"
    /\ delivered \cap HousekeepingSubs # {}
    /\ \E b \in DOMAIN g_sub_to_bp \cap DOMAIN subs :
           Matches(subs[b], ExecCpu, pc[ExecCpu])

\* C8: retro_serialize / retro_unserialize of the save and load verbs
\* never runs while the core thread is BLOCKED.
C8_NoSerializeWhileBlocked ==
    ~(g_core_state = "BLOCKED" /\ \E i \in 1..Len(ui) : ui[i].at = "serialize")

\* the frames of ar_process_command on the main thread's stack
CommandFrames ==
    {i \in 1..Len(ui) :
        ui[i].at \in {"run", "run_resumed", "run_loop", "run_poll",
                      "run_events", "run_end", "step", "step_resumed",
                      "step_loop", "step_poll", "save", "serialize"}}

\* C9: commands are processed one at a time: no command begins while
\* another one is still being processed.
C9_OneCommandAtATime == Cardinality(CommandFrames) <= 1

\* C14: the run verb ends with frames of its count left only after a frame
\* in which a breakpoint hit was recorded or the core thread blocked
C14_RunStopsOnlyOnHit ==
    \A i \in 1..Len(ui) :
        ui[i].at = "run_end" /\ ui[i].n > 0 => ui[i].wb \/ hit_seen

\* ------------------------------------------------------------------------
\* Properties of the audio ring
\* ------------------------------------------------------------------------

\* C10: the producer never writes a ring slot that holds a frame the
\* consumer has not yet read
C10_NoOverwriteOfUnread == ~overwrote

\* C11: every frame ar_audio_read copies out is a frame the producer stored
\* and the consumer had not read before, and no stored frame is lost before
\* it is read
C11_FramesDeliveredOnce == ~misread /\ ~overwrote

\* ------------------------------------------------------------------------
\* Properties of the trace ring
\* ------------------------------------------------------------------------

\* the lines still held when the last read began: the newest
\* TRACE_RING_SIZE of those written and not yet read
HeldUnread ==
    LET first == IF trace_read.head - trace_read.read > TRACE_RING_SIZE
                 THEN trace_read.head - TRACE_RING_SIZE ELSE trace_read.read
    IN  [i \in 1..(trace_read.head - first) |-> first + i]

\* C12: read_new(max) returns the min(max, held) oldest unread lines still
\* held, in write order, none of them returned before, and afterwards
\* 0 <= head - read <= TRACE_RING_SIZE
C12_ReadNewOldestUnread ==
    /\ trace_read.out = SubSeq(HeldUnread, 1, Min(trace_read.max, Len(HeldUnread)))
    /\ trace_read.out # <<>> => trace_read.out[1] > trace_read.before
    /\ trace_read.head - trace_read.after \in 0..TRACE_RING_SIZE

\* a read that found more than TRACE_RING_SIZE unread lines and returned some
C12_Witness ==
    /\ trace_read.head - trace_read.read > TRACE_RING_SIZE
    /\ Len(trace_read.out) > 1
    /\ trace_read.before > 0

\* the CPUs that own a trace subscription
TracedCpus == {subs[sid].target : sid \in g_trace_subs}

\* C15: right after a trace start the traced CPUs are those whose most
\* recent cpu-enable setting is on and the never-configured main CPU; the
\* saved settings are the most recent cpu-enable calls, whatever starts and
\* stops happened since
C15_TraceStartAppliesSettings ==
    /\ g_cpu_settings = cpu_wanted
    /\ trace_last = "start" =>
           TracedCpus = {c \in CpuSet : IF c \in DOMAIN cpu_wanted
                                        THEN cpu_wanted[c] ELSE c = Cpus[1]}

\* a session started with the main CPU switched off and the other CPU on
C15_Witness ==
    /\ trace_last = "start"
    /\ TracedCpus = {Cpus[2]}
    /\ Cpus[1] \in DOMAIN cpu_wanted

\* C16: ar_bp_enable(id, e) leaves the set of records and every field of
\* every record as it was, except the enabled flag of record id, whether it
\* returns true or false
C16_EnableTouchesOneFlag ==
    [][ bp_last'.op = "enable" =>
           /\ DOMAIN g_bps' = DOMAIN g_bps
           /\ \A j \in DOMAIN g_bps :
                  IF j = bp_last'.id
                  THEN [g_bps'[j] EXCEPT !.enabled = g_bps[j].enabled]
                           = g_bps[j]
                  ELSE g_bps'[j] = g_bps[j] ]_vars

\* an enable of an existing record was refused and rolled back while the
\* table held another record
C16_Witness ==
    /\ bp_last.op = "enable"
    /\ bp_last.ret = 0
    /\ bp_last.id \in DOMAIN g_bps
    /\ Cardinality(DOMAIN g_bps) >= 2

\* ------------------------------------------------------------------------
\* Properties of the memory search
\* ------------------------------------------------------------------------

\* the number of bits set in the byte b of the bitfield
BitsSet(b) == Cardinality({k \in 0..7 : (b \div (2 ^ k)) % 2 = 1})

RECURSIVE BitsIn(_)
BitsIn(bf) == IF bf = <<>> THEN 0 ELSE BitsSet(Head(bf)) + BitsIn(Tail(bf))

\* C17: after any reset, filter and free calls, ar_search_count equals the
\* number of bits set in the candidate bitfield, and is 0 when no session
\* is active
C17_CountIsBitsSet ==
    /\ s_count = BitsIn(s_candidates)
    /\ s_candidates = <<>> => s_count = 0

\* a filter cleared some candidates of a session whose bitfield has
\* trailing bits
C17_Witness ==
    /\ search_last.kind = "filter"
    /\ s_num_slots = 9
    /\ s_count \in 1..8
    /\ Candidates # search_last.before

\* C18: filter(op, v) keeps exactly the surviving candidates whose current
\* value satisfies `current op v` for a literal v, whatever 64-bit number
\* v is, and `current op prev[slot]` when the caller asked for the previous
\* snapshot; no cleared candidate comes back
C18_FilterKeepsMatching ==
    search_last.kind = "filter" =>
        Candidates =
            {slot \in search_last.before :
                Keep(search_last.op, search_last.cur[slot + 1],
                     IF search_last.p THEN search_last.prev[slot + 1]
                     ELSE search_last.num)}

\* ------------------------------------------------------------------------
\* Properties of the symbol store
\* ------------------------------------------------------------------------

\* C19: after any label/comment sets and deletes and symbol-file loads,
\* every entry of the store has a non-empty label or a non-empty comment
\* (an address with a label or a comment has an entry by construction)
C19_NoEmptyEntries ==
    \A k \in DOMAIN g_syms :
        g_syms[k].label # <<>> \/ g_syms[k].comment # <<>>

\* the pattern [A-Za-z_][A-Za-z0-9_]*
MatchesPattern(label) ==
    /\ label # <<>>
    /\ label[1] \in (65..90) \cup (97..122) \cup {95}
    /\ \A i \in 2..Len(label) :
           label[i] \in (65..90) \cup (97..122) \cup (48..57) \cup {95}

\* C20: a set-label or a symbol-file load that would store a label not
\* matching [A-Za-z_][A-Za-z0-9_]* fails and leaves the store as it was,
\* and every label the store holds matches the pattern
C20_OnlyValidLabels ==
    /\ sym_last.invalid => sym_last.ret = 0 /\ g_syms = sym_last.before
    /\ \A k \in DOMAIN g_syms :
           g_syms[k].label # <<>> => MatchesPattern(g_syms[k].label)

\* ------------------------------------------------------------------------
\* Properties of the address resolution
\* ------------------------------------------------------------------------

\* the memory regions ar_find_memory_by_id finds
KnownRegions == {r \in RegionIds : FindMemory(r)}

\* C21: ar_sym_resolve returns on every memory-map graph, cyclic ones
\* included, after following at most as many source links as there are
\* memory regions
C21_ResolveHopsBounded ==
    resolve_last.called => resolve_last.hops <= Cardinality(KnownRegions)

\* a resolution that ran into a cycle through every region
C21_Witness ==
    /\ resolve_last.called
    /\ ~resolve_last.found
    /\ resolve_last.hops = Cardinality(RegionIds)

\* the translation chain of the point p, cut after n links: a link leads
\* from a point of a known region through the first map entry that has a
\* source and covers the address
RECURSIVE ChainOf(_, _)
ChainOf(p, n) ==
    IF \/ n = 0
       \/ ~FindMemory(p[1])
       \/ p[1] \notin DOMAIN mem_maps
       \/ Covering(mem_maps[p[1]], p[2]) = {}
    THEN <<p>>
    ELSE LET m == mem_maps[p[1]][MinOf(Covering(mem_maps[p[1]], p[2]))]
         IN  <<p>> \o ChainOf(<<m.source, m.source_base_addr
                                            + (p[2] - m.base_addr)>>, n - 1)

\* the chain of the last resolution; it is long enough to come back to a
\* region whenever it does not end
LastChain ==
    ChainOf(<<resolve_last.region_id, resolve_last.addr>>,
            Cardinality(RegionIds) + 1)

ChainCycles(ch) ==
    \E i, j \in 1..Len(ch) : i < j /\ ch[i][1] = ch[j][1]

\* C22 as stated: no result for an unknown starting region, an unknown
\* region reached through a source, or a cycle; otherwise the end of the
\* chain
C22_ResolveDeepestOrNone ==
    resolve_last.called =>
        IF \/ \E i \in 1..Len(LastChain) : ~FindMemory(LastChain[i][1])
           \/ ChainCycles(LastChain)
        THEN ~resolve_last.found
        ELSE /\ resolve_last.found
             /\ <<resolve_last.out_region, resolve_last.out_addr>>
                    = LastChain[Len(LastChain)]

\* C22, amended: no result for an unknown starting region or a chain that
\* comes back to a region; otherwise the end of the chain, which is the
\* first point whose region has no map or no sourced entry covering the
\* address, or whose region is not known
C22_ResolveDeepestOrUnknownSource ==
    resolve_last.called =>
        IF ~FindMemory(resolve_last.region_id) \/ ChainCycles(LastChain)
        THEN ~resolve_last.found
        ELSE /\ resolve_last.found
             /\ <<resolve_last.out_region, resolve_last.out_addr>>
                    = LastChain[Len(LastChain)]

\* a resolution that ended two links deep in a region that is not known
C22_Witness ==
    /\ resolve_last.called
    /\ resolve_last.found
    /\ resolve_last.hops = 2
    /\ ~FindMemory(resolve_last.out_region)

\* C24: saving the store and loading the saved file gives the same
\* mapping: the same keys, each with the same label and the same comment
C24_SymSaveLoadRoundTrip ==
    sym_last.op = "reload" => g_syms = sym_last.before

\* C25: on a core without debug interface every debug verb answers
\* ok:false with the error "no debug support" and changes no state, and
\* the run verb executes all the frames it was asked for
C25_NoDebugVerbsRefused ==
    ~g_has_debug =>
        /\ cmd_last.verb \in DebugVerbs =>
                /\ ~cmd_last.ok
                /\ cmd_last.error = "no debug support"
                /\ ~cmd_last.changed
        /\ At("run_end") => Top(State).n = 0

\* C26: for a fixed-width ISA with alignment A (R3000A, A = 4) every
\* emitted instruction has an address that is 0 mod A and a length that is
\* a multiple of A, for every buffer and every base address
C26_FixedWidthAligned ==
    dis_last.cpu_type = "R3000A" =>
        \A i \in DOMAIN dis_last.out :
            /\ dis_last.out[i].address % Alignment("R3000A") = 0
            /\ dis_last.out[i].length % Alignment("R3000A") = 0

\* the position of entry i of the output: the lengths before it
RECURSIVE PosOf(_, _)
PosOf(out, i) == IF i = 1 THEN 0 ELSE PosOf(out, i - 1) + out[i - 1].length

\* the bytes an encoding that starts with the bytes at pos takes
EncodingLen(cpu_type, data, pos) ==
    CASE cpu_type = "R3000A" -> 4
      [] cpu_type = "LR35902" ->
          IF data[pos + 1] = 203 THEN 2
          ELSE IF data[pos + 1] \in base_ops_imm1 THEN 2
          ELSE IF data[pos + 1] \in base_ops_imm2 THEN 3 ELSE 1
      [] cpu_type = "6502" ->
          IF data[pos + 1] \in ops_6502_imm1 THEN 2
          ELSE IF data[pos + 1] \in ops_6502_imm2 THEN 3 ELSE 1

\* the encoding at pos is cut off by the end of the buffer
CutOff(cpu_type, data, pos) ==
    pos < Len(data) /\ pos + EncodingLen(cpu_type, data, pos) > Len(data)

\* the opcode at pos, wholly inside the buffer, is undefined
UndefinedAt(cpu_type, data, pos) ==
    /\ ~CutOff(cpu_type, data, pos)
    /\ CASE cpu_type = "R3000A" ->
               R3000aError(data[pos + 1], data[pos + 3], data[pos + 4])
         [] cpu_type = "LR35902" ->
               data[pos + 1] \in base_ops_und \ {203}
         [] cpu_type = "6502" -> data[pos + 1] \in ops_6502_und

\* C27: an emitted instruction is marked is_error exactly when the opcode
\* at its position is undefined or its encoding is cut off by the end of
\* the buffer, and decoding ends at the end of the buffer or with the one
\* error entry of an encoding that is cut off, for each CPU type
C27_ErrorsMarkUndefinedOrCutOff ==
    dis_last.called =>
        LET out == dis_last.out
            data == dis_last.data
            cpu == dis_last.cpu_type
            end == IF out = <<>> THEN 0
                   ELSE PosOf(out, Len(out)) + out[Len(out)].length
        IN  /\ \A i \in DOMAIN out :
                   /\ out[i].address = dis_last.base_addr + PosOf(out, i)
                   /\ out[i].is_error <=>
                          \/ UndefinedAt(cpu, data, PosOf(out, i))
                          \/ CutOff(cpu, data, PosOf(out, i))
                   /\ CutOff(cpu, data, PosOf(out, i)) => i = Len(out)
            /\ \/ end = Len(data)
               \/ /\ out # <<>>
                  /\ CutOff(cpu, data, PosOf(out, Len(out)))
                  /\ out[Len(out)].is_error

StackTraceStatus ==
    {"OK", "MAX_DEPTH", "SCAN_LIMIT", "INVALID_SP", "INVALID_RA",
     "READ_ERROR"}

\* C28: the unwinder terminates for every register and memory content
\* with one of the six statuses and at most max_depth + 1 frames; no
\* backward scan reads more than 2000 instructions and no forward scan
\* more than 10
C28_UnwinderTerminates ==
    /\ [](/\ unw.back_n <= MAX_SCAN_INSNS
          /\ unw.fwd_n <= 10
          /\ Len(unw.frames) <= unw.max_depth + 1
          /\ unw.status \in StackTraceStatus)
    /\ (unw.at # "idle" ~> unw.at = "done")

\* a call that ended after a second backward scan of 2000 instructions
C28_Witness ==
    /\ unw.at = "done"
    /\ unw.status = "SCAN_LIMIT"
    /\ unw.back_n = MAX_SCAN_INSNS
    /\ Len(unw.frames) = 2

\* C29: whenever the core state reads BLOCKED the core thread waits inside
\* the event handler for the resume signal: it neither executes emulator
\* code nor waits in its frame loop
C29_BlockedMeansWaitingInHandler ==
    g_core_state = "BLOCKED" => corePos = "hwait"


\* the transitions of g_core_state that the core thread, the event handler
\* and the frontend requests may make
CoreTransitions ==
    { <<"IDLE", "RUNNING">>, <<"RUNNING", "BLOCKED">>,
      <<"BLOCKED", "RUNNING">>, <<"RUNNING", "DONE">>, <<"DONE", "IDLE">> }

\* C30: apart from thread stop, which resets the state to IDLE, g_core_state
\* changes only IDLE to RUNNING, RUNNING to BLOCKED, BLOCKED to RUNNING,
\* RUNNING to DONE and DONE to IDLE (MainWindow::tick makes the last and the
\* first in one call: DONE to IDLE to RUNNING), and retro_run is started only
\* by the step to RUNNING, never while a frame is in progress
C30_CoreStateTransitions ==
    [][ /\ g_core_state' # g_core_state
            => \/ <<g_core_state, g_core_state'>> \in CoreTransitions
               \/ <<g_core_state, g_core_state'>> = <<"DONE", "RUNNING">>
               \/ At("join") /\ g_core_state' = "IDLE"
        /\ (corePos' = "start" /\ corePos # "start")
            => /\ corePos \in {"wait", "none"}
               /\ g_core_state' = IF joinable' THEN "RUNNING" ELSE "IDLE" ]_vars

\* ------------------------------------------------------------------------
\* The run verb under fair scheduling
\* ------------------------------------------------------------------------

\* a step of the core thread: core_thread_func, retro_run and the handler
CoreStep ==
    \/ CoreWake
    \/ \E sub_id \in DOMAIN subs, can_halt \in BOOLEAN, refire \in BOOLEAN :
           CoreDispatch(sub_id, can_halt, refire)
    \/ CoreUnblock
    \/ \E a \in Addrs : CoreExec(a)
    \/ CoreFrameEnd

\* a step of the run verb: its waiting loops are the guards of RunResumed,
\* RunLoop and RunPoll
RunVerbStep ==
    RunStart \/ RunResumed \/ RunLoop \/ RunPoll \/ RunEventsDone \/ RunEnd

\* the command lines of this specification: `run 1`, `run 2`, `bp add 0 X`
RunCmds == {c \in Cmds : c.verb = "run" \/ (c.verb = "bp" /\ c.arg = 0)}

\* the headless loop or the Qt timer serve the command socket
InitRunVerb == InitRun /\ frontend \in {"headless", "qt"}

NextRunVerb ==
    \/ CoreStep
    \/ \E c \in RunCmds : SockAccept(c)
    \/ SockReturn
    \/ RunVerbStep
    \/ HlLoop
    \/ QtTick

\* the core thread is scheduled fairly and every retro_run returns or
\* reaches a halting event (the frame has MaxInstr instructions); the UI
\* thread goes on whenever it does not wait for the core or for a
\* connection, and processEvents returns to the run verb
SpecRunFair ==
    /\ InitRunVerb
    /\ [][NextRunVerb]_vars
    /\ WF_vars(CoreWake)
    /\ WF_vars(\E sub_id \in DOMAIN subs, can_halt \in BOOLEAN,
                  refire \in BOOLEAN : CoreDispatch(sub_id, can_halt, refire))
    /\ WF_vars(CoreUnblock)
    /\ WF_vars(\E a \in Addrs : CoreExec(a))
    /\ WF_vars(CoreFrameEnd)
    /\ WF_vars(SockReturn)
    /\ WF_vars(HlLoop)
    /\ WF_vars(RunStart)
    /\ WF_vars(RunResumed)
    /\ WF_vars(RunLoop)
    /\ WF_vars(RunPoll)
    /\ SF_vars(RunEventsDone)
    /\ WF_vars(RunEnd)

\* the run verb's frame is the d-th of the UI thread's stack
RunVerbAt(d, l) == Len(ui) = d /\ ui[d].at = l

\* C31: the run verb always produces its response after finitely many
\* steps: it never waits forever for the core state to become IDLE or DONE,
\* neither after resuming an interrupted frame nor while retrying
\* ar_run_frame_async
C31_RunVerbResponds ==
    \A d \in {3, 5} : RunVerbAt(d, "run") ~> RunVerbAt(d, "run_end")

\* the step is a call of debug_handle_event: the core thread, inside
\* retro_run, delivers the event of the instruction at PC
Dispatched ==
    /\ corePos \in {"start", "run"}
    /\ Pending(State) # {}
    /\ delivered' # delivered \/ corePos' # corePos

C33_AtMostOneSuppressed == suppressed <= 1

\* C34: ar_bp_flush_deferred deletes the queued temporary breakpoints (and
\* resyncs the subscriptions) only between frames: never while the core
\* thread is inside retro_run or the event handler, never while the core
\* state is RUNNING or BLOCKED
C34_FlushBetweenFrames ==
    [][ (g_deferred_deletes # <<>> /\ g_deferred_deletes' = <<>>)
            => /\ g_core_state \notin {"RUNNING", "BLOCKED"}
               /\ corePos \notin {"start", "run", "hwait"} ]_vars

\* the step is a call of ar_debug_set_skip that changes the skip map: the
\* map gets an entry for every CPU (the handler only erases entries)
SkipMapRewritten ==
    /\ g_skip_addr' # g_skip_addr
    /\ DOMAIN g_skip_addr' = CpuSet

\* C35: the UI thread writes the skip map only while the core state is not
\* RUNNING: no run verb, step verb, Qt step, pause toggle, frame advance or
\* resume calls ar_debug_set_skip while the core thread executes a frame
C35_SetSkipNotWhileRunning ==
    [][ SkipMapRewritten => g_core_state # "RUNNING" ]_vars

\* C36: a step or breakpoint event suppressed at the skip address returns
\* false (the core goes on) and changes none of g_step_complete,
\* g_bp_hit_id, the deferred-delete list and g_core_state: a suppressed hit
\* of a temporary breakpoint queues no delete
C36_SuppressedEventChangesNothing ==
    [][ suppressed' > suppressed
            => /\ corePos' = "run"
               /\ UNCHANGED <<g_core_state, g_step_complete, g_bp_hit_id,
                              g_deferred_deletes>> ]_vars

\* the hit of a temporary breakpoint at the skip address was suppressed
C36_Witness ==
    /\ suppressed = 1
    /\ corePos = "run"
    /\ ExecCpu \in DOMAIN g_skip_addr
    /\ g_skip_addr[ExecCpu] = pc[ExecCpu]
    /\ g_deferred_deletes = <<>>
    /\ \E b \in delivered \cap DOMAIN g_sub_to_bp :
           /\ g_sub_to_bp[b] \in DOMAIN g_bps
           /\ g_bps[g_sub_to_bp[b]].temporary

\* the owner tables: g_sub_to_bp (breakpoint.cpp), g_step_sub_id
\* (backend.cpp), g_skip_temp_subs (backend.cpp), g_sub_to_cpu (trace.cpp)
OwnerTables ==
    <<DOMAIN g_sub_to_bp,
      IF g_step_active THEN {g_step_sub_id} ELSE {},
      Range(g_skip_temp_subs),
      g_trace_subs>>

C38_PrevIsComparedValue ==
    search_last.kind = "filter" =>
        \A slot \in 0..(s_num_slots - 1) :
            s_prev[slot + 1] = IF slot \in Candidates
                               THEN search_last.cur[slot + 1]
                               ELSE search_last.prev[slot + 1]

\* ------------------------------------------------------------------------
\* sys/psx_gpu_capture.cpp: the GPU command capture. The VRAM is one
\* 16-bit pixel that is 0 or 1, and the diff of an event that has none is
\* <<>>. An event carries two history fields: diffs, the number of times
\* its diff was written, and diff_len, the length of g_events at that time
\* ------------------------------------------------------------------------

\* at most MaxEvents events are recorded
MaxEvents == 4

KEYFRAME_INTERVAL == 128

Xor(a, b) == (a + b) % 2

\* the qCompress container: the uncompressed size, then the stream
zcompress(buf) == <<Len(buf)>> \o buf

GpuCapEvent(type, port, op) ==
    [type |-> type, port |-> port, op |-> op, is_keyframe |-> FALSE,
     diff |-> <<>>, frame_number |-> 0, diffs |-> 0, diff_len |-> 0]

\* onCaptureEvent, lines 343-353
modifies_vram(port, op) ==
    port = 0 /\ (op = 2 \/ op \in 32..127 \/ op \in 128..191)

is_cpu_to_vram(port, op) == port = 0 /\ op \in 160..191

\* the diff of event number idx against the shadow buffer: a keyframe
\* every KEYFRAME_INTERVAL events
WithDiff(g, ev, idx) ==
    LET cur == g.vram
        kf == idx % KEYFRAME_INTERVAL = 0
    IN  [ev EXCEPT !.is_keyframe = kf,
                   !.diff = zcompress(<<IF kf THEN cur
                                        ELSE Xor(cur, g.g_prevVram[1])>>),
                   !.diffs = @ + 1,
                   !.diff_len = Len(g.g_events)]

completeDeferredDiff(g) ==
    IF ~g.g_deferred \/ g.g_vramMem = "null" THEN g
    ELSE [g EXCEPT !.g_deferred = FALSE,
                   !.g_events[g.g_deferredIdx + 1] =
                       WithDiff(g, @, g.g_deferredIdx),
                   !.g_prevVram = <<g.vram>>]

\* the event handler from the lock on (lines 355-414); port and op are the
\* command's port and the top byte of its first word
onCaptureEvent(g, port, op) ==
    LET g1 == IF g.g_deferred THEN completeDeferredDiff(g) ELSE g
        eventIdx == Len(g1.g_events)
        ev == GpuCapEvent("GPU_COMMAND", port, op)
    IN  IF modifies_vram(port, op) /\ g1.g_vramMem # "null"
        THEN IF is_cpu_to_vram(port, op)
             THEN [g1 EXCEPT !.g_events = Append(@, ev),
                             !.g_deferred = TRUE,
                             !.g_deferredIdx = eventIdx]
             ELSE [g1 EXCEPT !.g_events = Append(@, WithDiff(g1, ev, eventIdx)),
                             !.g_prevVram = <<g1.vram>>]
        ELSE [g1 EXCEPT !.g_events = Append(@, ev)]

\* the core has the GP0 breakpoint and the vram region
gpu_capture_start(g) ==
    IF g.g_active THEN g
    ELSE [g EXCEPT !.g_vramMem = "vram",
                   !.g_events =
                       <<[GpuCapEvent("GPU_COMMAND", 0, 0)
                          EXCEPT !.is_keyframe = TRUE,
                                 !.diff = zcompress(<<g.vram>>),
                                 !.diffs = 1]>>,
                   !.g_frameCounter = 1,
                   !.g_deferred = FALSE,
                   !.g_prevVram = <<g.vram>>,
                   !.g_active = TRUE]

gpu_capture_stop(g) ==
    [g EXCEPT !.g_active = FALSE, !.g_prevVram = <<>>, !.g_vramMem = "null"]

\* the frame boundary from the lock on (lines 503-512)
gpu_capture_frame_boundary(g) ==
    LET g1 == IF g.g_deferred THEN completeDeferredDiff(g) ELSE g
    IN  [g1 EXCEPT !.g_events =
                       Append(@, [GpuCapEvent("FRAME_BOUNDARY", 0, 0)
                                  EXCEPT !.frame_number = g1.g_frameCounter]),
                   !.g_frameCounter = @ + 1]

GpuStep ==
    UNCHANGED <<bpVars, runVars, audioVars, traceVars, searchVars, symVars,
                toolVars, cmdVars, archVars>>

\* VramViewer::startCapture and stopCapture, on the UI thread; neither
\* looks at the core state, and the stop takes no lock
CaptureStart ==
    /\ gpu' = gpu_capture_start(gpu)
    /\ GpuStep

CaptureStop ==
    /\ gpu' = gpu_capture_stop(gpu)
    /\ GpuStep

\* the core thread reports an event on the capture subscription: the
\* handler returns unless the capture is active and the event is an
\* RD_EVENT_MISC with a whole rd_psx_gpu_post (lines 307-308)
CaptureEventEnter(misc, port, op) ==
    /\ gpu.at = "idle"
    /\ Len(gpu.g_events) < MaxEvents
    /\ gpu.g_active /\ misc
    /\ gpu' = [gpu EXCEPT !.at = "event", !.cmd = <<port, op>>]
    /\ GpuStep

\* the handler takes g_mutex and records the event
CaptureEventLocked ==
    /\ gpu.at = "event"
    /\ gpu' = [onCaptureEvent(gpu, gpu.cmd[1], gpu.cmd[2])
                EXCEPT !.at = "idle", !.cmd = <<>>]
    /\ GpuStep

\* the post-frame hook on the core thread: returns unless the capture is
\* active (line 502)
FrameBoundaryEnter ==
    /\ gpu.at = "idle"
    /\ Len(gpu.g_events) < MaxEvents
    /\ gpu.g_active
    /\ gpu' = [gpu EXCEPT !.at = "frame"]
    /\ GpuStep

FrameBoundaryLocked ==
    /\ gpu.at = "frame"
    /\ gpu' = [gpu_capture_frame_boundary(gpu) EXCEPT !.at = "idle"]
    /\ GpuStep

\* the GPU writes the VRAM: a transfer completes, a primitive is drawn
VramWrite(v) ==
    /\ gpu.vram # v
    /\ gpu' = [gpu EXCEPT !.vram = v]
    /\ GpuStep

\* the commands the core reports: fill (0x02), polygon (0x20), CPU to VRAM
\* (0xA0), VRAM to CPU (0xC0), draw area (0xE3), and a GP1 command
GpuCommands ==
    {<<0, 2>>, <<0, 32>>, <<0, 160>>, <<0, 192>>, <<0, 227>>, <<1, 0>>}

NextGpu ==
    \/ CaptureStart
    \/ CaptureStop
    \/ \E misc \in BOOLEAN, c \in GpuCommands :
           CaptureEventEnter(misc, c[1], c[2])
    \/ CaptureEventLocked
    \/ FrameBoundaryEnter
    \/ FrameBoundaryLocked
    \/ \E v \in 0..1 : VramWrite(v)

SpecGpu == InitAudio /\ [][NextGpu]_vars

IsCpuToVram(ev) ==
    ev.type = "GPU_COMMAND" /\ is_cpu_to_vram(ev.port, ev.op)

\* C39: every recorded CPU-to-VRAM command event gets its VRAM diff once,
\* at the next command event or frame boundary and before that event is
\* appended (the list then ends with the command): an event without diff
\* is the pending one of an active capture and the last of the list; at
\* most one diff is pending, that of the most recently recorded event
C39_DeferredDiffOnceBeforeNext ==
    LET ev == gpu.g_events
    IN  /\ \A i \in 1..Len(ev) :
               IsCpuToVram(ev[i]) =>
                   IF gpu.g_active /\ gpu.g_deferred /\ gpu.g_deferredIdx = i - 1
                   THEN ev[i].diffs = 0 /\ ev[i].diff = <<>> /\ i = Len(ev)
                   ELSE ev[i].diffs = 1 /\ ev[i].diff # <<>>
                        /\ ev[i].diff_len = i
        /\ gpu.g_deferred =>
               /\ gpu.g_deferredIdx = Len(ev) - 1
               /\ IsCpuToVram(ev[Len(ev)])
====
